---------------------------- MODULE Spec2Model ----------------------------
(***************************************************************************)
(* A model of qub's lazy Iterator / Iterable pipeline (src/source/qub.ts): *)
(* the iterator decorators (where, skip, take, map, concatenate), the      *)
(* iterable views that manufacture them, the array-backed ArrayList and    *)
(* the string-backed StringIterable.                                       *)
(*                                                                         *)
(* Iterators and iterables are records tagged by their class in field k.   *)
(* Every method that can change the receiver returns [it |-> the receiver  *)
(* afterwards, r |-> the returned value].  Array and string indices are    *)
(* 0-based as in the source; Get0 reads a TLA+ sequence at a 0-based       *)
(* index.  L is the store of the ArrayLists that can be referenced from    *)
(* outside (list id -> contents); id 0 marks an ArrayList private to the   *)
(* view that created it, whose contents travel in the record.              *)
(***************************************************************************)
EXTENDS Integers, Sequences, FiniteSets, TLC

\* ------------------------------------------------------------------ bounds
MaxLen == 2        \* longest backing list / text of the receiver
MaxOther == 1      \* longest argument of concatenate / endsWith
MaxNest == 1       \* view constructors already applied to the receiver

\* JavaScript's undefined, for counts, indices and elements alike.
undefined == -1000

isDefined(value) == value # undefined

\* the elements (for a StringIterable: the characters)
Values == {1, 2}

\* a JavaScript condition `n && 0 < n` on a count that may be undefined
Positive(n) == isDefined(n) /\ n # 0 /\ 0 < n

Get0(s, i) == s[i + 1]

\* F applied to a value: names the result of one call that is used more
\* than once afterwards
Bind(value, F(_)) == F(value)

\* the sequences over V of length up to n
RECURSIVE SeqsOver(_, _)
SeqsOver(V, n) ==
    IF n = 0 THEN {<<>>}
    ELSE Bind(SeqsOver(V, n - 1), LAMBDA S :
             S \cup {Append(s, v) : s \in {t \in S : Len(t) = n - 1}, v \in V})

SeqsUpTo(n) == SeqsOver(Values, n)

\* ------------------------------------------------------- callbacks
\* Predicates and mapping functions are named; "none" is an absent callback.
Conditions == {"none", "even", "small"}
MapFunctions == {"none", "inc", "half"}

\* A KeyValuePair object { key, value } with a key in 1..9 and a value in
\* 0..9 is denoted by the number 10 * key + value.
KeyValuePair(key, value) == 10 * key + value

Pair_key(pair) == pair \div 10

Pair_value(pair) == pair % 10

\* (lhs, rhs) => lhs.key === rhs.key
Map_add_comparer(lhs, rhs) == Pair_key(lhs) = Pair_key(rhs)

\* comparers are named as well
comparer(c, lhs, rhs) == CASE c = "key" -> Map_add_comparer(lhs, rhs)

\* (pair) => pair.key === key, as a named condition
KeyIs(key) == CASE key = 1 -> "key1" [] key = 2 -> "key2" [] key = 3 -> "key3"

KeyOf(c) == CASE c = "key1" -> 1 [] c = "key2" -> 2 [] c = "key3" -> 3

\* (undefined % 2 is NaN and undefined < 2 is false in JavaScript)
condition(c, value) ==
    CASE c = "even" -> isDefined(value) /\ value % 2 = 0
      [] c = "small" -> isDefined(value) /\ value < 2
      [] c = "always" -> TRUE
      [] c = "never" -> FALSE
      [] c \in {"key1", "key2", "key3"} -> Pair_key(value) = KeyOf(c)

mapFunction(f, value) ==
    CASE ~isDefined(value) -> undefined
      [] f = "inc" -> value + 1
      [] f = "half" -> (value + 1) \div 2

RECURSIVE applyAll(_, _)
applyAll(fs, value) ==
    IF fs = <<>> THEN value ELSE applyAll(Tail(fs), mapFunction(Head(fs), value))

\* ------------------------------------------------------- ArrayList
\* The fields of an ArrayList: [data |-> _data, count |-> _count].
EmptyArrayList == [data |-> <<>>, count |-> 0]

\* the elements [0, count) of an ArrayList with these fields
Contents(list) == SubSeq(list.data, 1, list.count)

\* mutant: forgets _count++
ArrayList_add_uncounted(list, value) ==
    [data |-> IF list.count = Len(list.data) THEN Append(list.data, value)
              ELSE [list.data EXCEPT ![list.count + 1] = value],
     count |-> list.count]

ArrayList_add(list, value) ==
    [data |-> IF list.count = Len(list.data) THEN Append(list.data, value)
              ELSE [list.data EXCEPT ![list.count + 1] = value],
     count |-> list.count + 1]

\* for (const value of values) this.add(value)
RECURSIVE ArrayList_addEach(_, _)
ArrayList_addEach(list, values) ==
    IF values = <<>> THEN list
    ELSE ArrayList_addEach(ArrayList_add(list, Head(values)), Tail(values))

\* The fields of the ArrayList an iterator or iterable refers to: those in
\* the store L, or for an ArrayList of its own (id 0) those that hold a.data.
Fields(a, L) == IF a.id = 0 THEN [data |-> a.data, count |-> Len(a.data)] ELSE L[a.id]

\* its elements [0, count)
Data(a, L) == Contents(Fields(a, L))

ArrayList_getCount(a, L) == Fields(a, L).count

ArrayList_get(a, index, L) ==
    IF isDefined(index) /\ 0 <= index /\ index < ArrayList_getCount(a, L)
    THEN Get0(Fields(a, L).data, index)
    ELSE undefined

\* ---- the methods that change an ArrayList, on its fields: each returns
\* [list |-> the fields afterwards, r |-> the returned value]
InBounds(list, index) == isDefined(index) /\ 0 <= index /\ index < list.count

\* mutant: index <= count for index < count
ArrayList_set_pastEnd(list, index, value) ==
    [list |-> IF isDefined(index) /\ 0 <= index /\ index <= list.count
              THEN [list EXCEPT !.data = IF index < Len(@) THEN [@ EXCEPT ![index + 1] = value]
                                         ELSE Append(@, value)]
              ELSE list,
     r |-> undefined]

ArrayList_set(list, index, value) ==
    [list |-> IF InBounds(list, index)
              THEN [list EXCEPT !.data = [@ EXCEPT ![index + 1] = value]]
              ELSE list,
     r |-> undefined]

\* any() without a condition
ArrayList_any(list) == list.count > 0

ArrayList_setLast(list, value) ==
    [list |-> IF ArrayList_any(list)
              THEN [list EXCEPT !.data = [@ EXCEPT ![list.count] = value]]
              ELSE list,
     r |-> undefined]

\* without a comparer: the first i in [0, count) with _data[i] === value
ArrayList_indexOf(list, value) ==
    IF \E i \in 0..(list.count - 1) : Get0(list.data, i) = value
    THEN CHOOSE i \in 0..(list.count - 1) :
             /\ Get0(list.data, i) = value
             /\ \A j \in 0..(i - 1) : Get0(list.data, j) # value
    ELSE undefined

\* for (i = index; i < count - 1; ++i) data[i] = data[i + 1]; data[count - 1] = undefined
\* mutant: clears the last slot without shifting
ArrayList_removeAtShift_none(list, index) ==
    [j \in 1..Len(list.data) |-> IF j = list.count THEN undefined ELSE list.data[j]]

ArrayList_removeAtShift(list, index) ==
    [j \in 1..Len(list.data) |->
        IF index + 1 <= j /\ j < list.count THEN list.data[j + 1]
        ELSE IF j = list.count THEN undefined
        ELSE list.data[j]]

\* mutant: forgets _count--
ArrayList_removeAt_counted(list, index) ==
    IF InBounds(list, index)
    THEN [list |-> [data |-> ArrayList_removeAtShift(list, index), count |-> list.count],
          r |-> Get0(list.data, index)]
    ELSE [list |-> list, r |-> undefined]

ArrayList_removeAt(list, index) ==
    IF InBounds(list, index)
    THEN [list |-> [data |-> ArrayList_removeAtShift(list, index), count |-> list.count - 1],
          r |-> Get0(list.data, index)]
    ELSE [list |-> list, r |-> undefined]

ArrayList_remove(list, value) ==
    IF isDefined(ArrayList_indexOf(list, value))
    THEN ArrayList_removeAt(list, ArrayList_indexOf(list, value))
    ELSE [list |-> list, r |-> undefined]

\* indexOf and remove with a comparer
\* mutant: the loop does not break at the first match
ArrayList_indexOf_comparer_last(list, value, c) ==
    IF \E i \in 0..(list.count - 1) : comparer(c, Get0(list.data, i), value)
    THEN CHOOSE i \in 0..(list.count - 1) :
             /\ comparer(c, Get0(list.data, i), value)
             /\ \A j \in (i + 1)..(list.count - 1) : ~comparer(c, Get0(list.data, j), value)
    ELSE undefined

ArrayList_indexOf_comparer(list, value, c) ==
    IF \E i \in 0..(list.count - 1) : comparer(c, Get0(list.data, i), value)
    THEN CHOOSE i \in 0..(list.count - 1) :
             /\ comparer(c, Get0(list.data, i), value)
             /\ \A j \in 0..(i - 1) : ~comparer(c, Get0(list.data, j), value)
    ELSE undefined

ArrayList_remove_comparer(list, value, c) ==
    IF isDefined(ArrayList_indexOf_comparer(list, value, c))
    THEN ArrayList_removeAt(list, ArrayList_indexOf_comparer(list, value, c))
    ELSE [list |-> list, r |-> undefined]

ArrayList_removeFirst(list) == ArrayList_removeAt(list, 0)

ArrayList_removeLast(list) == ArrayList_removeAt(list, list.count - 1)

\* ------------------------------------------------------- leaf iterators
ArrayListIterator_hasStarted(it) == isDefined(it.idx)

ArrayListForwardIterator_atEnd(it, L) == it.idx = ArrayList_getCount(it, L)

ArrayListReverseIterator_atEnd(it, L) == it.idx < 0

ArrayListIterator_atEnd(it, L) ==
    IF it.k = "fwd" THEN ArrayListForwardIterator_atEnd(it, L)
    ELSE ArrayListReverseIterator_atEnd(it, L)

ArrayListIterator_hasCurrent(it, L) ==
    ArrayListIterator_hasStarted(it) /\ ~ArrayListIterator_atEnd(it, L)

ArrayListIterator_getCurrent(it, L) == ArrayList_get(it, it.idx, L)

\* mutant: advances without testing atEnd()
ArrayListForwardIterator_next_unguarded(it, L) ==
    Bind(IF ~ArrayListIterator_hasStarted(it) THEN [it EXCEPT !.idx = 0]
               ELSE [it EXCEPT !.idx = it.idx + 1], LAMBDA it2 :
        [it |-> it2, r |-> ~ArrayListForwardIterator_atEnd(it2, L)])

ArrayListForwardIterator_next(it, L) ==
    Bind(IF ~ArrayListIterator_hasStarted(it) THEN [it EXCEPT !.idx = 0]
               ELSE IF ~ArrayListForwardIterator_atEnd(it, L)
                    THEN [it EXCEPT !.idx = it.idx + 1]
                    ELSE it, LAMBDA it2 :
        [it |-> it2, r |-> ~ArrayListForwardIterator_atEnd(it2, L)])

\* mutant: starts at count instead of count - 1
ArrayListReverseIterator_next_fromCount(it, L) ==
    Bind(IF ~ArrayListIterator_hasStarted(it)
               THEN [it EXCEPT !.idx = ArrayList_getCount(it, L)]
               ELSE IF ~ArrayListReverseIterator_atEnd(it, L)
                    THEN [it EXCEPT !.idx = it.idx - 1]
                    ELSE it, LAMBDA it2 :
        [it |-> it2, r |-> ~ArrayListReverseIterator_atEnd(it2, L)])

ArrayListReverseIterator_next(it, L) ==
    Bind(IF ~ArrayListIterator_hasStarted(it)
               THEN [it EXCEPT !.idx = ArrayList_getCount(it, L) - 1]
               ELSE IF ~ArrayListReverseIterator_atEnd(it, L)
                    THEN [it EXCEPT !.idx = it.idx - 1]
                    ELSE it, LAMBDA it2 :
        [it |-> it2, r |-> ~ArrayListReverseIterator_atEnd(it2, L)])

StringIterator(text, startIndex, endIndex) ==
    [k |-> "str", text |-> text, startIndex |-> startIndex, endIndex |-> endIndex,
     currentIndex |-> startIndex, started |-> FALSE,
     step |-> IF endIndex >= startIndex THEN 1 ELSE -1]

StringIterator_hasMore(it) ==
    IF it.step > 0 THEN it.currentIndex < it.endIndex ELSE it.currentIndex > it.endIndex

StringIterator_hasCurrent(it) == it.started /\ StringIterator_hasMore(it)

StringIterator_getCurrent(it) ==
    IF StringIterator_hasCurrent(it) THEN Get0(it.text, it.currentIndex) ELSE undefined

\* mutant: the first call moves as well
StringIterator_next_eager(it) ==
    Bind(IF StringIterator_hasMore(it)
         THEN [it EXCEPT !.started = TRUE, !.currentIndex = it.currentIndex + it.step]
         ELSE [it EXCEPT !.started = TRUE], LAMBDA it2 :
        [it |-> it2, r |-> StringIterator_hasMore(it2)])

\* mutant: moves without asking hasMore()
StringIterator_next_past(it) ==
    Bind(IF it.started = FALSE THEN [it EXCEPT !.started = TRUE]
         ELSE [it EXCEPT !.currentIndex = it.currentIndex + it.step], LAMBDA it2 :
        [it |-> it2, r |-> StringIterator_hasMore(it2)])

StringIterator_next(it) ==
    Bind(IF it.started = FALSE THEN [it EXCEPT !.started = TRUE]
               ELSE IF StringIterator_hasMore(it)
                    THEN [it EXCEPT !.currentIndex = it.currentIndex + it.step]
                    ELSE it, LAMBDA it2 :
        [it |-> it2, r |-> StringIterator_hasMore(it2)])

\* ------------------------------------------------------- Lexer
\* Characters are their UTF-16 code units, a text is a sequence of them.
\* A Lex is [text, startIndex, type]; type is the name of its LexType.
Lex(text, startIndex, type) == [text |-> text, startIndex |-> startIndex, type |-> type]

\* an undefined _currentLex
NoLex == Lex(<<>>, undefined, "undefined")

\* the cases of Lexer.next's switch that make a one-character token
\* (carriage return, 13, has a case of its own)
SingleCharacterType(c) ==
    CASE c = 123 -> "LeftCurlyBracket"   [] c = 125 -> "RightCurlyBracket"
      [] c = 91 -> "LeftSquareBracket"   [] c = 93 -> "RightSquareBracket"
      [] c = 40 -> "LeftParenthesis"     [] c = 41 -> "RightParenthesis"
      [] c = 60 -> "LeftAngleBracket"    [] c = 62 -> "RightAngleBracket"
      [] c = 34 -> "DoubleQuote"         [] c = 39 -> "SingleQuote"
      [] c = 45 -> "Dash"                [] c = 43 -> "Plus"
      [] c = 44 -> "Comma"               [] c = 58 -> "Colon"
      [] c = 59 -> "Semicolon"           [] c = 33 -> "ExclamationPoint"
      [] c = 92 -> "Backslash"           [] c = 47 -> "ForwardSlash"
      [] c = 63 -> "QuestionMark"        [] c = 61 -> "EqualsSign"
      [] c = 46 -> "Period"              [] c = 95 -> "Underscore"
      [] c = 38 -> "Ampersand"           [] c = 32 -> "Space"
      [] c = 9 -> "Tab"                  [] c = 10 -> "NewLine"
      [] c = 42 -> "Asterisk"            [] c = 37 -> "Percent"
      [] c = 124 -> "VerticalBar"        [] c = 35 -> "Hash"
      [] OTHER -> "none"

\* ---- the methods of Lex
Lex_getLength(lex) == Len(lex.text)

Lex_afterEndIndex(lex) == lex.startIndex + Lex_getLength(lex)

Lex_getType(lex) == lex.type

Lex_isWhitespace(lex) == lex.type \in {"Space", "Tab", "CarriageReturn"}

\* mutant: without the NewLine case
Lex_isNewLine_combinedOnly(lex) == lex.type \in {"CarriageReturnNewLine"}

Lex_isNewLine(lex) == lex.type \in {"CarriageReturnNewLine", "NewLine"}

\* new Lex("\r", ...) and new Lex("\r\n", startIndex, LexType.NewLine)
CarriageReturn(startIndex) == Lex(<<13>>, startIndex, "CarriageReturn")

CarriageReturnNewLine(startIndex) == Lex(<<13, 10>>, startIndex, "NewLine")

\* the first ranges of isLetter's table, which decide every character up to
\* \u02C0: A-Y, a-y, \u00AA, \u00BA-\u00D5, \u00D8-\u00F5, \u00F8-\u02C0
isLetter(c) ==
    \/ (65 <= c /\ c <= 89)
    \/ (c >= 97 /\ (c <= 121
         \/ (c >= 170 /\ (c <= 170
              \/ (c >= 186 /\ (c <= 213
                   \/ (c >= 216 /\ (c <= 245
                        \/ (c >= 248 /\ c <= 704)))))))))

isDigit(c) == 48 <= c /\ c <= 57

\* readWhile(iterator, condition); which is "letter" or "digit".  Returns the
\* iterator afterwards and the text read.
RECURSIVE readWhileLoop(_, _, _)
readWhileLoop(iterator, which, result) ==
    Bind(StringIterator_next(iterator), LAMBDA n :
    Bind(StringIterator_getCurrent(n.it), LAMBDA c :
        IF n.r /\ (IF which = "letter" THEN isLetter(c) ELSE isDigit(c))
        THEN readWhileLoop(n.it, which, Append(result, c))
        ELSE [it |-> n.it, r |-> result]))

\* mutant: reads the current character only
readWhile_single(iterator, which) ==
    [it |-> StringIterator_next(iterator).it, r |-> <<StringIterator_getCurrent(iterator)>>]

readWhile(iterator, which) ==
    readWhileLoop(iterator, which, <<StringIterator_getCurrent(iterator)>>)

Lexer(text, startIndex) ==
    [k |-> "lexer", iterator |-> StringIterator(text, 0, Len(text)),
     offset |-> startIndex, currentLex |-> NoLex]

Lexer_hasStarted(it) == it.iterator.started

Lexer_hasCurrent(it) == it.currentLex # NoLex

Lexer_getCurrent(it) == it.currentLex

\* mutant: the start index without _characterStartIndexOffset
Lexer_next_relative(it) ==
    Bind(IF ~Lexer_hasStarted(it) THEN StringIterator_next(it.iterator).it
              ELSE it.iterator, LAMBDA i0 :
    Bind(StringIterator_getCurrent(i0), LAMBDA c :
    Bind(i0.currentIndex, LAMBDA start :
    Bind(StringIterator_next(i0), LAMBDA n :
    Bind(readWhile(i0, IF isLetter(c) THEN "letter" ELSE "digit"), LAMBDA run :
    Bind(   IF ~StringIterator_hasCurrent(i0)
            THEN [it EXCEPT !.iterator = i0, !.currentLex = NoLex]
            ELSE IF SingleCharacterType(c) # "none"
            THEN [it EXCEPT !.iterator = n.it,
                            !.currentLex = Lex(<<c>>, start, SingleCharacterType(c))]
            ELSE IF c = 13
            THEN IF ~n.r \/ StringIterator_getCurrent(n.it) # 10
                 THEN [it EXCEPT !.iterator = n.it, !.currentLex = CarriageReturn(start)]
                 ELSE [it EXCEPT !.iterator = StringIterator_next(n.it).it,
                                 !.currentLex = CarriageReturnNewLine(start)]
            ELSE IF isLetter(c)
            THEN [it EXCEPT !.iterator = run.it, !.currentLex = Lex(run.r, start, "Letters")]
            ELSE IF isDigit(c)
            THEN [it EXCEPT !.iterator = run.it, !.currentLex = Lex(run.r, start, "Digits")]
            ELSE [it EXCEPT !.iterator = n.it, !.currentLex = Lex(<<c>>, start, "Unrecognized")],
         LAMBDA it2 : [it |-> it2, r |-> Lexer_hasCurrent(it2)]))))))

\* mutant: a lone carriage return takes the character after it along
Lexer_next_swallow(it) ==
    Bind(IF ~Lexer_hasStarted(it) THEN StringIterator_next(it.iterator).it
              ELSE it.iterator, LAMBDA i0 :
    Bind(StringIterator_getCurrent(i0), LAMBDA c :
    Bind(i0.currentIndex + it.offset, LAMBDA start :
    Bind(StringIterator_next(i0), LAMBDA n :
    Bind(readWhile(i0, IF isLetter(c) THEN "letter" ELSE "digit"), LAMBDA run :
    Bind(   IF ~StringIterator_hasCurrent(i0)
            THEN [it EXCEPT !.iterator = i0, !.currentLex = NoLex]
            ELSE IF SingleCharacterType(c) # "none"
            THEN [it EXCEPT !.iterator = n.it,
                            !.currentLex = Lex(<<c>>, start, SingleCharacterType(c))]
            ELSE IF c = 13
            THEN IF ~n.r \/ StringIterator_getCurrent(n.it) # 10
                 THEN [it EXCEPT !.iterator = StringIterator_next(n.it).it,
                                 !.currentLex = CarriageReturn(start)]
                 ELSE [it EXCEPT !.iterator = StringIterator_next(n.it).it,
                                 !.currentLex = CarriageReturnNewLine(start)]
            ELSE IF isLetter(c)
            THEN [it EXCEPT !.iterator = run.it, !.currentLex = Lex(run.r, start, "Letters")]
            ELSE IF isDigit(c)
            THEN [it EXCEPT !.iterator = run.it, !.currentLex = Lex(run.r, start, "Digits")]
            ELSE [it EXCEPT !.iterator = n.it, !.currentLex = Lex(<<c>>, start, "Unrecognized")],
         LAMBDA it2 : [it |-> it2, r |-> Lexer_hasCurrent(it2)]))))))

\* mutant: an unrecognized character is not passed
Lexer_next_stuck(it) ==
    Bind(IF ~Lexer_hasStarted(it) THEN StringIterator_next(it.iterator).it
              ELSE it.iterator, LAMBDA i0 :
    Bind(StringIterator_getCurrent(i0), LAMBDA c :
    Bind(i0.currentIndex + it.offset, LAMBDA start :
    Bind(StringIterator_next(i0), LAMBDA n :
    Bind(readWhile(i0, IF isLetter(c) THEN "letter" ELSE "digit"), LAMBDA run :
    Bind(   IF ~StringIterator_hasCurrent(i0)
            THEN [it EXCEPT !.iterator = i0, !.currentLex = NoLex]
            ELSE IF SingleCharacterType(c) # "none"
            THEN [it EXCEPT !.iterator = n.it,
                            !.currentLex = Lex(<<c>>, start, SingleCharacterType(c))]
            ELSE IF c = 13
            THEN IF ~n.r \/ StringIterator_getCurrent(n.it) # 10
                 THEN [it EXCEPT !.iterator = n.it, !.currentLex = CarriageReturn(start)]
                 ELSE [it EXCEPT !.iterator = StringIterator_next(n.it).it,
                                 !.currentLex = CarriageReturnNewLine(start)]
            ELSE IF isLetter(c)
            THEN [it EXCEPT !.iterator = run.it, !.currentLex = Lex(run.r, start, "Letters")]
            ELSE IF isDigit(c)
            THEN [it EXCEPT !.iterator = run.it, !.currentLex = Lex(run.r, start, "Digits")]
            ELSE [it EXCEPT !.iterator = i0, !.currentLex = Lex(<<c>>, start, "Unrecognized")],
         LAMBDA it2 : [it |-> it2, r |-> Lexer_hasCurrent(it2)]))))))

Lexer_next(it) ==
    Bind(IF ~Lexer_hasStarted(it) THEN StringIterator_next(it.iterator).it
              ELSE it.iterator, LAMBDA i0 :
    Bind(StringIterator_getCurrent(i0), LAMBDA c :
    Bind(i0.currentIndex + it.offset, LAMBDA start :
    Bind(StringIterator_next(i0), LAMBDA n :
    Bind(readWhile(i0, IF isLetter(c) THEN "letter" ELSE "digit"), LAMBDA run :
    Bind(   IF ~StringIterator_hasCurrent(i0)
            THEN [it EXCEPT !.iterator = i0, !.currentLex = NoLex]
            ELSE IF SingleCharacterType(c) # "none"
            THEN [it EXCEPT !.iterator = n.it,
                            !.currentLex = Lex(<<c>>, start, SingleCharacterType(c))]
            ELSE IF c = 13
            THEN IF ~n.r \/ StringIterator_getCurrent(n.it) # 10
                 THEN [it EXCEPT !.iterator = n.it, !.currentLex = CarriageReturn(start)]
                 ELSE [it EXCEPT !.iterator = StringIterator_next(n.it).it,
                                 !.currentLex = CarriageReturnNewLine(start)]
            ELSE IF isLetter(c)
            THEN [it EXCEPT !.iterator = run.it, !.currentLex = Lex(run.r, start, "Letters")]
            ELSE IF isDigit(c)
            THEN [it EXCEPT !.iterator = run.it, !.currentLex = Lex(run.r, start, "Digits")]
            ELSE [it EXCEPT !.iterator = n.it, !.currentLex = Lex(<<c>>, start, "Unrecognized")],
         LAMBDA it2 : [it |-> it2, r |-> Lexer_hasCurrent(it2)]))))))

\* ------------------------------------------------------- Iterator interface
\* A method call on an Iterator or an Iterable runs the method of the
\* receiver's class: Invoke is that dynamic dispatch, and the operators under
\* it are the methods as the callers name them.
RECURSIVE Invoke(_, _, _, _)

hasStarted(it) == Invoke("hasStarted", it, <<>>, <<>>)

hasCurrent(it, L) == Invoke("hasCurrent", it, L, <<>>)

next(it, L) == Invoke("next", it, L, <<>>)

getCurrent(it, L) == Invoke("getCurrent", it, L, <<>>)

foreach(it, L, vis) == Invoke("foreach", it, L, vis)

getCount(it, L) == Invoke("getCount", it, L, <<>>)

iterate(x, L) == Invoke("iterate", x, L, <<>>)

iterateReverse(x, L) == Invoke("iterateReverse", x, L, <<>>)

Iterable_getCount(x, L) == Invoke("Iterable.getCount", x, L, <<>>)

get(x, index, L) == Invoke("get", x, L, index)

getLast(x, index, L) == Invoke("getLast", x, L, index)

RECURSIVE SkipIterator_skipValues(_, _)
RECURSIVE WhereIterator_nextLoop(_, _)
RECURSIVE WhereIterator_constructLoop(_, _)

IteratorDecorator_hasStarted(it) == hasStarted(it.inner)

IteratorDecorator_hasCurrent(it, L) ==
    Bind(hasCurrent(it.inner, L), LAMBDA h :
        [it |-> [it EXCEPT !.inner = h.it], r |-> h.r])

IteratorDecorator_next(it, L) ==
    Bind(next(it.inner, L), LAMBDA n :
        [it |-> [it EXCEPT !.inner = n.it], r |-> n.r])

IteratorDecorator_getCurrent(it, L) ==
    Bind(getCurrent(it.inner, L), LAMBDA g :
        [it |-> [it EXCEPT !.inner = g.it], r |-> g.r])

\* ---- WhereIterator
\* the constructor's loop: while (hasCurrent() && !condition(getCurrent())) super.next()
WhereIterator_constructLoop(it, L) ==
    Bind(IteratorDecorator_hasCurrent(it, L), LAMBDA h :
    Bind(IteratorDecorator_getCurrent(h.it, L), LAMBDA g :
        IF h.r /\ ~condition(it.cond, g.r)
        THEN WhereIterator_constructLoop(IteratorDecorator_next(g.it, L).it, L)
        ELSE IF h.r THEN g.it ELSE h.it))

\* mutant: the constructor leaves the inner iterator where it is
WhereIterator_unforwarded(innerIterator, cond, L) ==
    [k |-> "where", inner |-> innerIterator, cond |-> cond]

WhereIterator(innerIterator, cond, L) ==
    Bind([k |-> "where", inner |-> innerIterator, cond |-> cond], LAMBDA it :
        IF cond # "none" THEN WhereIterator_constructLoop(it, L) ELSE it)

\* while (super.next() && !condition(getCurrent())) {}
WhereIterator_nextLoop(it, L) ==
    Bind(IteratorDecorator_next(it, L), LAMBDA n :
    Bind(IteratorDecorator_getCurrent(n.it, L), LAMBDA g :
        IF n.r /\ ~condition(it.cond, g.r)
        THEN WhereIterator_nextLoop(g.it, L)
        ELSE IF n.r THEN g.it ELSE n.it))

\* mutant: next() forgets to test the condition
WhereIterator_next_unfiltered(it, L) == IteratorDecorator_next(it, L)

WhereIterator_next(it, L) ==
    Bind(IF it.cond = "none" THEN IteratorDecorator_next(it, L).it
                 ELSE WhereIterator_nextLoop(it, L), LAMBDA moved :
        IteratorDecorator_hasCurrent(moved, L))

\* ---- SkipIterator
SkipIterator(innerIterator, toSkip) ==
    [k |-> "skip", inner |-> innerIterator, toSkip |-> toSkip, skipped |-> 0]

\* mutant: skips one value too few
RECURSIVE SkipIterator_skipValues_short(_, _)
SkipIterator_skipValues_short(it, L) ==
    IF isDefined(it.toSkip) /\ it.skipped + 1 < it.toSkip
    THEN Bind(IteratorDecorator_next(it, L), LAMBDA n :
             SkipIterator_skipValues_short(
                 [n.it EXCEPT !.skipped = IF ~n.r THEN it.toSkip ELSE it.skipped + 1], L))
    ELSE it

SkipIterator_skipValues(it, L) ==
    IF isDefined(it.toSkip) /\ it.skipped < it.toSkip
    THEN Bind(IteratorDecorator_next(it, L), LAMBDA n :
             SkipIterator_skipValues(
                 [n.it EXCEPT !.skipped = IF ~n.r THEN it.toSkip ELSE it.skipped + 1], L))
    ELSE it

\* mutant: skips without testing super.hasCurrent()
SkipIterator_hasCurrent_eager(it, L) ==
    IteratorDecorator_hasCurrent(SkipIterator_skipValues(it, L), L)

SkipIterator_hasCurrent(it, L) ==
    Bind(IteratorDecorator_hasCurrent(it, L), LAMBDA h :
        IteratorDecorator_hasCurrent(
            IF h.r THEN SkipIterator_skipValues(h.it, L) ELSE h.it, L))

SkipIterator_next(it, L) == IteratorDecorator_next(SkipIterator_skipValues(it, L), L)

SkipIterator_getCurrent(it, L) ==
    Bind(IteratorDecorator_hasCurrent(it, L), LAMBDA h :
        IteratorDecorator_getCurrent(
            IF h.r THEN SkipIterator_skipValues(h.it, L) ELSE h.it, L))

\* ---- TakeIterator
TakeIterator(innerIterator, toTake, L) ==
    Bind(hasCurrent(innerIterator, L), LAMBDA h :
        [k |-> "take", inner |-> h.it, toTake |-> toTake, taken |-> IF h.r THEN 1 ELSE 0])

\* mutant: < for <=
TakeIterator_canTakeValue_strict(it) == isDefined(it.toTake) /\ it.taken < it.toTake

TakeIterator_canTakeValue(it) == isDefined(it.toTake) /\ it.taken <= it.toTake

TakeIterator_hasCurrent(it, L) ==
    Bind(IteratorDecorator_hasCurrent(it, L), LAMBDA h :
        [it |-> h.it, r |-> h.r /\ TakeIterator_canTakeValue(h.it)])

TakeIterator_next(it, L) ==
    TakeIterator_hasCurrent(
        IF TakeIterator_canTakeValue(it)
        THEN IteratorDecorator_next([it EXCEPT !.taken = it.taken + 1], L).it
        ELSE it, L)

TakeIterator_getCurrent(it, L) ==
    Bind(TakeIterator_hasCurrent(it, L), LAMBDA h :
        IF h.r THEN IteratorDecorator_getCurrent(h.it, L) ELSE [it |-> h.it, r |-> undefined])

\* ---- MapIterator
MapIterator(innerIterator, fn) ==
    [k |-> "map", inner |-> innerIterator, fn |-> fn, started |-> hasStarted(innerIterator)]

MapIterator_hasStarted(it) == it.started

MapIterator_hasCurrent(it, L) ==
    IF it.fn # "none" THEN IteratorDecorator_hasCurrent(it, L) ELSE [it |-> it, r |-> FALSE]

MapIterator_next(it, L) ==
    Bind([it EXCEPT !.started = TRUE], LAMBDA s :
        IF it.fn # "none" THEN IteratorDecorator_next(s, L) ELSE [it |-> s, r |-> FALSE])

MapIterator_getCurrent(it, L) ==
    Bind(MapIterator_hasCurrent(it, L), LAMBDA h :
    Bind(IteratorDecorator_getCurrent(h.it, L), LAMBDA g :
        IF h.r THEN [it |-> g.it, r |-> mapFunction(it.fn, g.r)]
        ELSE [it |-> h.it, r |-> undefined]))

\* ---- ConcatenateIterator
ConcatenateIterator(firstIterator, secondIterator) ==
    [k |-> "concat", first |-> firstIterator, second |-> secondIterator]

ConcatenateIterator_hasStarted(it) == hasStarted(it.first)

ConcatenateIterator_hasCurrent(it, L) ==
    Bind(hasCurrent(it.first, L), LAMBDA h1 :
    Bind(hasCurrent(it.second, L), LAMBDA h2 :
        IF h1.r THEN [it |-> [it EXCEPT !.first = h1.it], r |-> TRUE]
        ELSE [it |-> [it EXCEPT !.first = h1.it, !.second = h2.it], r |-> h2.r]))

ConcatenateIterator_next(it, L) ==
    Bind(next(it.first, L), LAMBDA n1 :
    Bind(next(it.second, L), LAMBDA n2 :
        IF n1.r THEN [it |-> [it EXCEPT !.first = n1.it], r |-> TRUE]
        ELSE [it |-> [it EXCEPT !.first = n1.it, !.second = n2.it], r |-> n2.r]))

ConcatenateIterator_getCurrent(it, L) ==
    Bind(hasCurrent(it.first, L), LAMBDA h1 :
    Bind(getCurrent(h1.it, L), LAMBDA g1 :
    Bind(getCurrent(it.second, L), LAMBDA g2 :
        IF h1.r THEN [it |-> [it EXCEPT !.first = g1.it], r |-> g1.r]
        ELSE [it |-> [it EXCEPT !.first = h1.it, !.second = g2.it], r |-> g2.r])))

\* ------------------------------------------------------- IteratorBase
\* A visitor passed to foreach: def is FALSE for an absent valueFunction; the
\* visitor receives applyAll(fns, value) (the mapping functions that
\* MapIterator.foreach put in front of it) and calls control.break() when
\* that value satisfies brk.  foreach returns the iterator, the values the
\* visitor received (out) and whether the visitor broke.
Visitor(brk) == [def |-> TRUE, fns |-> <<>>, brk |-> brk]

NoVisitor == [def |-> FALSE, fns |-> <<>>, brk |-> "never"]

RECURSIVE IteratorBase_foreachLoop(_, _, _, _, _)
RECURSIVE IteratorBase_foreachLoop_advancing(_, _, _, _, _)
RECURSIVE IteratorBase_getCountLoop(_, _, _)

IteratorBase_takeCurrent(it, L) ==
    Bind(getCurrent(it, L), LAMBDA g :
        [it |-> next(g.it, L).it, r |-> g.r])

\* while (this.next()) ++result
IteratorBase_getCountLoop(it, L, result) ==
    Bind(next(it, L), LAMBDA n :
        IF n.r THEN IteratorBase_getCountLoop(n.it, L, result + 1)
        ELSE [it |-> n.it, r |-> result])

\* mutant: the current value is not counted
IteratorBase_getCount_afterCurrent(it, L) ==
    Bind(hasCurrent(it, L), LAMBDA h : IteratorBase_getCountLoop(h.it, L, 0))

IteratorBase_getCount(it, L) ==
    Bind(hasCurrent(it, L), LAMBDA h :
        IteratorBase_getCountLoop(h.it, L, IF h.r THEN 1 ELSE 0))

\* while (control.shouldContinue() && this.next()) valueFunction(getCurrent(), control)
\* mutant: while (this.next() && control.shouldContinue())
IteratorBase_foreachLoop_advancing(it, L, vis, out, broke) ==
    IF broke THEN [it |-> next(it, L).it, out |-> out, broke |-> TRUE]
    ELSE Bind(next(it, L), LAMBDA n :
         Bind(getCurrent(n.it, L), LAMBDA g :
         Bind(applyAll(vis.fns, g.r), LAMBDA w :
             IF n.r
             THEN IteratorBase_foreachLoop_advancing(g.it, L, vis, Append(out, w),
                                                     condition(vis.brk, w))
             ELSE [it |-> n.it, out |-> out, broke |-> FALSE])))

IteratorBase_foreachLoop(it, L, vis, out, broke) ==
    IF broke THEN [it |-> it, out |-> out, broke |-> TRUE]
    ELSE Bind(next(it, L), LAMBDA n :
         Bind(getCurrent(n.it, L), LAMBDA g :
         Bind(applyAll(vis.fns, g.r), LAMBDA w :
             IF n.r
             THEN IteratorBase_foreachLoop(g.it, L, vis, Append(out, w), condition(vis.brk, w))
             ELSE [it |-> n.it, out |-> out, broke |-> FALSE])))

IteratorBase_foreach(it, L, vis) ==
    IF ~vis.def THEN [it |-> it, out |-> <<>>, broke |-> FALSE]
    ELSE Bind(hasCurrent(it, L), LAMBDA h :
         Bind(getCurrent(h.it, L), LAMBDA g :
         Bind(applyAll(vis.fns, g.r), LAMBDA w :
             IF h.r
             THEN IteratorBase_foreachLoop(g.it, L, vis, <<w>>, condition(vis.brk, w))
             ELSE IteratorBase_foreachLoop(h.it, L, vis, <<>>, FALSE))))

MapIterator_foreach(it, L, vis) ==
    IF it.fn # "none" /\ vis.def
    THEN Bind(foreach(it.inner, L, [vis EXCEPT !.fns = <<it.fn>> \o vis.fns]), LAMBDA f :
             [it |-> [it EXCEPT !.inner = f.it], out |-> f.out, broke |-> f.broke])
    ELSE [it |-> it, out |-> <<>>, broke |-> FALSE]

MapIterator_getCount(it, L) ==
    Bind([it EXCEPT !.started = TRUE], LAMBDA s :
    Bind(getCount(it.inner, L), LAMBDA c :
        IF it.fn # "none" THEN [it |-> [s EXCEPT !.inner = c.it], r |-> c.r]
        ELSE [it |-> s, r |-> 0]))

\* IteratorBase.any and MapIterator.any have the same body
IteratorBase_any(it, L, cond) ==
    IF cond = "none"
    THEN Bind(hasCurrent(it, L), LAMBDA h :
             IF h.r THEN h ELSE next(h.it, L))
    ELSE Bind(foreach(it, L, Visitor(cond)), LAMBDA f :
             [it |-> f.it, r |-> f.broke])

\* first() without a condition
IteratorBase_firstPlain(it, L) ==
    getCurrent(IF ~hasStarted(it) THEN next(it, L).it ELSE it, L)

\* with a condition: this.where(condition).first(); the WhereIterator is
\* dropped afterwards and the receiver is left where the WhereIterator put it
IteratorBase_first(it, L, cond) ==
    IF cond = "none" THEN IteratorBase_firstPlain(it, L)
    ELSE Bind(IteratorBase_firstPlain(WhereIterator(it, cond, L), L), LAMBDA f :
             [it |-> f.it.inner, r |-> f.r])

MapIterator_first(it, L, cond) ==
    Bind(IteratorBase_firstPlain(WhereIterator(it, cond, L), L), LAMBDA f :
        [it |-> f.it.inner, r |-> f.r])

first(it, L, cond) ==
    IF it.k = "map" THEN MapIterator_first(it, L, cond) ELSE IteratorBase_first(it, L, cond)

IteratorBase_toArray(it, L) ==
    Bind(foreach(it, L, Visitor("never")), LAMBDA f :
        [it |-> f.it, r |-> f.out])

\* the values of toArray(), for an iterator that is not used afterwards
toArray(it, L) == IteratorBase_toArray(it, L).r

\* ---- the transformation constructors of IteratorBase and MapIterator
IteratorBase_where(it, cond, L) == WhereIterator(it, cond, L)

IteratorBase_skip(it, toSkip) == SkipIterator(it, toSkip)

IteratorBase_take(it, toTake, L) == TakeIterator(it, toTake, L)

IteratorBase_map(it, fn) == MapIterator(it, fn)

\* toConcatenate: an iterator record, or NoIterator for undefined
NoIterator == [k |-> "undefined"]

IteratorBase_concatenate(it, toConcatenate) ==
    IF toConcatenate = NoIterator THEN it ELSE ConcatenateIterator(it, toConcatenate)

MapIterator_concatenate(it, toConcatenate) == ConcatenateIterator(it, toConcatenate)

concatenate(it, toConcatenate) ==
    IF it.k = "map" THEN MapIterator_concatenate(it, toConcatenate)
    ELSE IteratorBase_concatenate(it, toConcatenate)

\* ------------------------------------------------------- Iterables
\* new ArrayList() / new ArrayList(values): an ArrayList nobody else refers to
ArrayList(values) ==
    [k |-> "list", id |-> 0, data |-> Contents(ArrayList_addEach(EmptyArrayList, values))]

\* an ArrayList held by the caller, whose fields are L[id]
SharedArrayList(id) == [k |-> "list", id |-> id, data |-> <<>>]

StringIterable(text) == [k |-> "string", text |-> text]

\* an absent Iterable argument, and a raw array argument
NoIterable == [k |-> "undefined"]

RawArray(values) == [k |-> "array", data |-> values]

ArrayList_iterate(x) == [k |-> "fwd", id |-> x.id, data |-> x.data, idx |-> undefined]

ArrayList_iterateReverse(x) == [k |-> "rev", id |-> x.id, data |-> x.data, idx |-> undefined]

StringIterable_iterate(x) == StringIterator(x.text, 0, Len(x.text))

StringIterable_iterateReverse(x) == StringIterator(x.text, Len(x.text) - 1, -1)

IterableBase_getCount(x, L) == getCount(iterate(x, L), L).r

IterableBase_toArray(x, L) == toArray(iterate(x, L), L)

WhereIterable(innerIterable, cond) == [k |-> "whereI", inner |-> innerIterable, cond |-> cond]

WhereIterable_iterate(x, L) == IteratorBase_where(iterate(x.inner, L), x.cond, L)

WhereIterable_iterateReverse(x, L) == IteratorBase_where(iterateReverse(x.inner, L), x.cond, L)

SkipIterable(innerIterable, toSkip) == [k |-> "skipI", inner |-> innerIterable, toSkip |-> toSkip]

SkipIterable_getCount(x, L) ==
    Bind(Iterable_getCount(x.inner, L), LAMBDA result :
        IF result <= x.toSkip THEN 0 ELSE result - x.toSkip)

SkipIterable_iterate(x, L) == IteratorBase_skip(iterate(x.inner, L), x.toSkip)

SkipIterable_iterateReverse(x, L) ==
    IteratorBase_take(iterateReverse(x.inner, L), SkipIterable_getCount(x, L), L)

TakeIterable(innerIterable, toTake) == [k |-> "takeI", inner |-> innerIterable, toTake |-> toTake]

TakeIterable_getCount(x, L) ==
    Bind(Iterable_getCount(x.inner, L), LAMBDA result :
        IF x.toTake < result THEN x.toTake ELSE result)

TakeIterable_iterate(x, L) == IteratorBase_take(iterate(x.inner, L), x.toTake, L)

\* mutant: skips toTake values instead of count - toTake
TakeIterable_iterateReverse_wrongSkip(x, L) ==
    IteratorBase_skip(iterateReverse(x.inner, L), x.toTake)

TakeIterable_iterateReverse(x, L) ==
    IteratorBase_skip(iterateReverse(x.inner, L), Iterable_getCount(x.inner, L) - x.toTake)

MapIterable(innerIterable, fn) == [k |-> "mapI", inner |-> innerIterable, fn |-> fn]

MapIterable_iterate(x, L) == IteratorBase_map(iterate(x.inner, L), x.fn)

MapIterable_iterateReverse(x, L) == IteratorBase_map(iterateReverse(x.inner, L), x.fn)

MapIterable_getCount(x, L) == Iterable_getCount(x.inner, L)

\* ArrayList.addAll on a fresh ArrayList: an array is copied, an Iterable is
\* traversed with foreach, anything absent adds nothing
ArrayList_addAll(values, L) ==
    CASE values.k = "undefined" -> <<>>
      [] values.k = "array" -> values.data
      [] OTHER -> IterableBase_toArray(values, L)

\* the constructor copies `second` into an ArrayList of its own
ConcatenateIterable(firstIterable, secondIterable, L) ==
    [k |-> "concatI", first |-> firstIterable,
     second |-> ArrayList(ArrayList_addAll(secondIterable, L))]

\* mutant: the two halves in the wrong order
ConcatenateIterable_iterate_swapped(x, L) ==
    concatenate(iterate(x.second, L), iterate(x.first, L))

ConcatenateIterable_iterate(x, L) == concatenate(iterate(x.first, L), iterate(x.second, L))

ConcatenateIterable_iterateReverse(x, L) ==
    concatenate(iterateReverse(x.second, L), iterateReverse(x.first, L))

\* ---- get and getLast
\* while (iterator.next() && 0 < index) { --index; }  result = iterator.getCurrent();
RECURSIVE IterableBase_getLoop(_, _, _)
IterableBase_getLoop(it, index, L) ==
    Bind(next(it, L), LAMBDA n :
        IF n.r /\ 0 < index THEN IterableBase_getLoop(n.it, index - 1, L)
        ELSE getCurrent(n.it, L).r)

\* (0 <= undefined is false)
IterableBase_get(x, index, L) ==
    IF isDefined(index) /\ 0 <= index THEN IterableBase_getLoop(iterate(x, L), index, L)
    ELSE undefined

IterableBase_getLast(x, index, L) ==
    IF isDefined(index) /\ 0 <= index THEN IterableBase_getLoop(iterateReverse(x, L), index, L)
    ELSE undefined

\* index + toSkip; undefined + toSkip is NaN, which fails every comparison
\* the get methods make, as undefined does
SkipIterable_index(index, toSkip) == IF isDefined(index) THEN index + toSkip ELSE undefined

SkipIterable_get(x, index, L) == get(x.inner, SkipIterable_index(index, x.toSkip), L)

TakeIterable_get(x, index, L) ==
    IF isDefined(index) /\ 0 <= index /\ index < TakeIterable_getCount(x, L)
    THEN get(x.inner, index, L) ELSE undefined

MapIterable_get(x, index, L) ==
    IF x.fn # "none" /\ isDefined(index) /\ 0 <= index /\ index < MapIterable_getCount(x, L)
    THEN mapFunction(x.fn, get(x.inner, index, L)) ELSE undefined

\* mutant: reads the inner Iterable from the front
MapIterable_getLast_forward(x, index, L) ==
    IF x.fn # "none" /\ isDefined(index) /\ 0 <= index /\ index < MapIterable_getCount(x, L)
    THEN mapFunction(x.fn, get(x.inner, index, L)) ELSE undefined

MapIterable_getLast(x, index, L) ==
    IF x.fn # "none" /\ isDefined(index) /\ 0 <= index /\ index < MapIterable_getCount(x, L)
    THEN mapFunction(x.fn, getLast(x.inner, index, L)) ELSE undefined

\* ---- dynamic dispatch on the receiver's class
Invoke(m, it, L, arg) ==
    CASE m = "hasStarted" ->
        (CASE it.k \in {"fwd", "rev"} -> ArrayListIterator_hasStarted(it)
           [] it.k = "str" -> it.started
           [] it.k = "lexer" -> Lexer_hasStarted(it)
           [] it.k \in {"where", "skip", "take"} -> IteratorDecorator_hasStarted(it)
           [] it.k = "map" -> MapIterator_hasStarted(it)
           [] it.k = "concat" -> ConcatenateIterator_hasStarted(it))
      [] m = "hasCurrent" ->
        (CASE it.k \in {"fwd", "rev"} -> [it |-> it, r |-> ArrayListIterator_hasCurrent(it, L)]
           [] it.k = "str" -> [it |-> it, r |-> StringIterator_hasCurrent(it)]
           [] it.k = "lexer" -> [it |-> it, r |-> Lexer_hasCurrent(it)]
           [] it.k = "where" -> IteratorDecorator_hasCurrent(it, L)
           [] it.k = "skip" -> SkipIterator_hasCurrent(it, L)
           [] it.k = "take" -> TakeIterator_hasCurrent(it, L)
           [] it.k = "map" -> MapIterator_hasCurrent(it, L)
           [] it.k = "concat" -> ConcatenateIterator_hasCurrent(it, L))
      [] m = "next" ->
        (CASE it.k = "fwd" -> ArrayListForwardIterator_next(it, L)
           [] it.k = "rev" -> ArrayListReverseIterator_next(it, L)
           [] it.k = "str" -> StringIterator_next(it)
           [] it.k = "lexer" -> Lexer_next(it)
           [] it.k = "where" -> WhereIterator_next(it, L)
           [] it.k = "skip" -> SkipIterator_next(it, L)
           [] it.k = "take" -> TakeIterator_next(it, L)
           [] it.k = "map" -> MapIterator_next(it, L)
           [] it.k = "concat" -> ConcatenateIterator_next(it, L))
      [] m = "getCurrent" ->
        (CASE it.k \in {"fwd", "rev"} -> [it |-> it, r |-> ArrayListIterator_getCurrent(it, L)]
           [] it.k = "str" -> [it |-> it, r |-> StringIterator_getCurrent(it)]
           [] it.k = "lexer" -> [it |-> it, r |-> Lexer_getCurrent(it)]
           [] it.k = "where" -> IteratorDecorator_getCurrent(it, L)
           [] it.k = "skip" -> SkipIterator_getCurrent(it, L)
           [] it.k = "take" -> TakeIterator_getCurrent(it, L)
           [] it.k = "map" -> MapIterator_getCurrent(it, L)
           [] it.k = "concat" -> ConcatenateIterator_getCurrent(it, L))
      [] m = "foreach" ->
        IF it.k = "map" THEN MapIterator_foreach(it, L, arg)
        ELSE IteratorBase_foreach(it, L, arg)
      [] m = "getCount" ->
        IF it.k = "map" THEN MapIterator_getCount(it, L)
        ELSE IteratorBase_getCount(it, L)
      [] m = "iterate" ->
        (CASE it.k = "list" -> ArrayList_iterate(it)
           [] it.k = "string" -> StringIterable_iterate(it)
           [] it.k = "whereI" -> WhereIterable_iterate(it, L)
           [] it.k = "skipI" -> SkipIterable_iterate(it, L)
           [] it.k = "takeI" -> TakeIterable_iterate(it, L)
           [] it.k = "mapI" -> MapIterable_iterate(it, L)
           [] it.k = "concatI" -> ConcatenateIterable_iterate(it, L))
      [] m = "iterateReverse" ->
        (CASE it.k = "list" -> ArrayList_iterateReverse(it)
           [] it.k = "string" -> StringIterable_iterateReverse(it)
           [] it.k = "whereI" -> WhereIterable_iterateReverse(it, L)
           [] it.k = "skipI" -> SkipIterable_iterateReverse(it, L)
           [] it.k = "takeI" -> TakeIterable_iterateReverse(it, L)
           [] it.k = "mapI" -> MapIterable_iterateReverse(it, L)
           [] it.k = "concatI" -> ConcatenateIterable_iterateReverse(it, L))
      [] m = "Iterable.getCount" ->
        (CASE it.k = "list" -> ArrayList_getCount(it, L)
           [] it.k = "skipI" -> SkipIterable_getCount(it, L)
           [] it.k = "takeI" -> TakeIterable_getCount(it, L)
           [] it.k = "mapI" -> MapIterable_getCount(it, L)
           [] OTHER -> IterableBase_getCount(it, L))
      [] m = "get" ->
        (CASE it.k = "list" -> ArrayList_get(it, arg, L)
           [] it.k = "skipI" -> SkipIterable_get(it, arg, L)
           [] it.k = "takeI" -> TakeIterable_get(it, arg, L)
           [] it.k = "mapI" -> MapIterable_get(it, arg, L)
           [] OTHER -> IterableBase_get(it, arg, L))
      [] m = "getLast" ->
        IF it.k = "mapI" THEN MapIterable_getLast(it, arg, L)
        ELSE IterableBase_getLast(it, arg, L)

\* ---- first and last (IterableBase and MapIterable have the same bodies)
IterableBase_first(x, cond, L) == first(iterate(x, L), L, cond).r

\* mutant: searches from the front
IterableBase_last_forward(x, cond, L) == first(iterate(x, L), L, cond).r

IterableBase_last(x, cond, L) == first(iterateReverse(x, L), L, cond).r

\* ---- the view constructors (IterableBase and MapIterable have the same bodies)
IterableBase_where(x, cond) == IF cond # "none" THEN WhereIterable(x, cond) ELSE x

IterableBase_skip(x, toSkip) == IF Positive(toSkip) THEN SkipIterable(x, toSkip) ELSE x

IterableBase_take(x, toTake) ==
    IF Positive(toTake) THEN TakeIterable(x, toTake) ELSE ArrayList(<<>>)

\* mutant: skips at the front
IterableBase_skipLast_front(x, toSkip, L) ==
    IF Positive(toSkip) THEN IterableBase_skip(x, toSkip) ELSE x

IterableBase_skipLast(x, toSkip, L) ==
    IF Positive(toSkip) THEN IterableBase_take(x, Iterable_getCount(x, L) - toSkip) ELSE x

IterableBase_takeLast(x, toTake, L) ==
    IF ~isDefined(toTake) \/ toTake = 0 \/ toTake < 0 THEN ArrayList(<<>>)
    ELSE Bind(Iterable_getCount(x, L), LAMBDA count :
             IF count <= toTake THEN x ELSE IterableBase_skip(x, count - toTake))

\* mutant: an absent mapping function gives the receiver back
IterableBase_map_identity(x, fn) == IF fn # "none" THEN MapIterable(x, fn) ELSE x

IterableBase_map(x, fn) == IF fn # "none" THEN MapIterable(x, fn) ELSE ArrayList(<<>>)

IterableBase_concatenate(x, toConcatenate, L) ==
    IF toConcatenate.k # "undefined" THEN ConcatenateIterable(x, toConcatenate, L) ELSE x

\* while (a.next() === b.next() && a.hasCurrent())
\*     if (a.getCurrent() !== b.getCurrent()) { result = false; break; }
RECURSIVE IterableBase_endsWithLoop(_, _, _)
IterableBase_endsWithLoop(a, b, L) ==
    Bind(next(a, L), LAMBDA na :
    Bind(next(b, L), LAMBDA nb :
    Bind(hasCurrent(na.it, L), LAMBDA ha :
    Bind(getCurrent(ha.it, L), LAMBDA ga :
    Bind(getCurrent(nb.it, L), LAMBDA gb :
        IF na.r = nb.r /\ ha.r
        THEN IF ga.r # gb.r THEN FALSE ELSE IterableBase_endsWithLoop(ga.it, gb.it, L)
        ELSE TRUE)))))

\* mutant: compares with the first values instead of the last
IterableBase_endsWith_prefix(x, values, L) ==
    IF values.k = "undefined" THEN FALSE
    ELSE Bind(Iterable_getCount(values, L), LAMBDA valuesCount :
             IF valuesCount = 0 THEN FALSE
             ELSE IF Iterable_getCount(x, L) < valuesCount THEN FALSE
             ELSE IterableBase_endsWithLoop(
                      iterate(IterableBase_take(x, valuesCount), L),
                      iterate(values, L), L))

\* IterableBase.endsWith and MapIterable.endsWith have the same body
IterableBase_endsWith(x, values, L) ==
    IF values.k = "undefined" THEN FALSE
    ELSE Bind(Iterable_getCount(values, L), LAMBDA valuesCount :
             IF valuesCount = 0 THEN FALSE
             ELSE IF Iterable_getCount(x, L) < valuesCount THEN FALSE
             ELSE IterableBase_endsWithLoop(
                      iterate(IterableBase_takeLast(x, valuesCount, L), L),
                      iterate(values, L), L))

\* ------------------------------------------------------- Map
\* A Map's _pairs is the ArrayList with the fields L[1].
Map_pairs == SharedArrayList(1)

Map_getCount(L) == ArrayList_getCount(Map_pairs, L)

\* mutant: without this._pairs.remove(pair, ...)
Map_add_appending(L, key, value) ==
    [L EXCEPT ![1] = ArrayList_add(@, KeyValuePair(key, value))]

Map_add(L, key, value) ==
    [L EXCEPT ![1] =
        ArrayList_add(
            ArrayList_remove_comparer(@, KeyValuePair(key, value), "key").list,
            KeyValuePair(key, value))]

\* this.add(keyValuePair.key, keyValuePair.value) for each pair in turn
RECURSIVE Map_addEach(_, _)
Map_addEach(L, keyValuePairs) ==
    IF keyValuePairs = <<>> THEN L
    ELSE Map_addEach(Map_add(L, Pair_key(Head(keyValuePairs)), Pair_value(Head(keyValuePairs))),
                     Tail(keyValuePairs))

\* an array is walked by for-of, an Iterable by its foreach
Map_addAll(L, keyValuePairs) ==
    CASE keyValuePairs.k = "array" -> Map_addEach(L, keyValuePairs.data)
      [] keyValuePairs.k = "undefined" -> L
      [] OTHER ->
            Map_addEach(L, foreach(iterate(keyValuePairs, L), L, Visitor("never")).out)

\* new Map(initialValues)
Map_constructor(initialValues) == Map_addAll([i \in 1..2 |-> EmptyArrayList], initialValues)

\* ArrayList.any(condition) is IterableBase.any(condition)
Map_contains(L, key) == IteratorBase_any(iterate(Map_pairs, L), L, KeyIs(key)).r

Map_get(L, key) ==
    Bind(IterableBase_first(Map_pairs, KeyIs(key), L), LAMBDA pair :
        IF isDefined(pair) THEN Pair_value(pair) ELSE undefined)

\* ------------------------------------------------------- Stack
\* A Stack's _values is the ArrayList with the fields L[1].
Stack_values == SharedArrayList(1)

Stack_getCount(L) == ArrayList_getCount(Stack_values, L)

Stack_push(L, value) == [L EXCEPT ![1] = ArrayList_add(@, value)]

\* mutant: takes the value from the other end
Stack_pop_first(L) ==
    Bind(ArrayList_removeFirst(L[1]), LAMBDA taken :
        [L |-> [L EXCEPT ![1] = taken.list], r |-> taken.r])

Stack_pop(L) ==
    Bind(ArrayList_removeLast(L[1]), LAMBDA taken :
        [L |-> [L EXCEPT ![1] = taken.list], r |-> taken.r])

Stack_peek(L) == IterableBase_last(Stack_values, "none", L)

\* ------------------------------------------------------- Queue
\* A Queue's _values is the ArrayList with the fields L[1].
Queue_values == SharedArrayList(1)

Queue_getCount(L) == ArrayList_getCount(Queue_values, L)

Queue_enqueue(L, value) == [L EXCEPT ![1] = ArrayList_add(@, value)]

\* mutant: takes the value from the other end
Queue_dequeue_last(L) ==
    Bind(ArrayList_removeLast(L[1]), LAMBDA taken :
        [L |-> [L EXCEPT ![1] = taken.list], r |-> taken.r])

Queue_dequeue(L) ==
    Bind(ArrayList_removeFirst(L[1]), LAMBDA taken :
        [L |-> [L EXCEPT ![1] = taken.list], r |-> taken.r])

\* ------------------------------------------------------- LanguageExtension
\* A Platform holds the active text editor's document (undefined without an
\* editor) and the callbacks set on it, by name. `unsets` says what the
\* Disposable a set...Callback() returns does: a platform's own removes the
\* callback, the test Platform's Disposable.dispose() does nothing.
Platform(activeTextEditor, unsets) ==
    [_activeTextEditor |-> activeTextEditor, callbacks |-> {}, unsets |-> unsets]

Platform_setCallback(platform, name) == [platform EXCEPT !.callbacks = @ \cup {name}]

Disposable_dispose(platform, name) ==
    IF platform.unsets THEN [platform EXCEPT !.callbacks = @ \ {name}] ELSE platform

RECURSIVE setCallbacks(_, _)
setCallbacks(platform, names) ==
    IF names = <<>> THEN platform
    ELSE setCallbacks(Platform_setCallback(platform, Head(names)), Tail(names))

\* for (const subscription of subscriptions) { subscription.dispose(); }
RECURSIVE disposeEach(_, _)
disposeEach(platform, subscriptions) ==
    IF subscriptions = <<>> THEN platform
    ELSE disposeEach(Disposable_dispose(platform, Head(subscriptions)), Tail(subscriptions))

BasicSubscriptions ==
    <<"activeEditorChanged", "configurationChanged", "textDocumentOpened", "textDocumentSaved">>

\* new LanguageExtension(...), and the setOnProvide... calls an extension
\* makes before its first event: hover, completions, formatted say which of
\* the three provider functions were set
LanguageExtension(hover, completions, formatted, platform) ==
    [_disposed |-> FALSE,
     _basicSubscriptions |-> BasicSubscriptions,
     _languageSubscriptions |-> <<>>,
     _parsedDocuments |-> {},
     _onProvideHoverFunction |-> hover,
     _onProvideCompletionsFunction |-> completions,
     _onProvideFormattedDocumentFunction |-> formatted,
     _platform |-> setCallbacks(platform, BasicSubscriptions)]

\* a text document is its URI, a number; the extension's isParsable() accepts
\* the documents of its language, here those with a positive URI
isParsable(textDocument) == textDocument > 0

\* the subscriptions updateDocumentParse pushes, in its order
LanguageSubscriptions(ext) ==
    <<"textDocumentChanged", "textDocumentClosed">>
        \o (IF ext._onProvideHoverFunction THEN <<"provideHover">> ELSE <<>>)
        \o (IF ext._onProvideCompletionsFunction THEN <<"provideCompletions">> ELSE <<>>)
        \o (IF ext._onProvideFormattedDocumentFunction THEN <<"provideFormattedDocumentText">>
            ELSE <<>>)

pushLanguageSubscriptions(ext) ==
    [ext EXCEPT !._languageSubscriptions = @ \o LanguageSubscriptions(ext),
                !._platform = setCallbacks(@, LanguageSubscriptions(ext))]

\* mutant: pushes the subscriptions at every parse
updateDocumentParse_everyTime(ext, textDocument) ==
    IF isDefined(textDocument) /\ isParsable(textDocument)
    THEN [pushLanguageSubscriptions(ext) EXCEPT !._parsedDocuments = @ \cup {textDocument}]
    ELSE ext

updateDocumentParse(ext, textDocument) ==
    IF isDefined(textDocument) /\ isParsable(textDocument)
    THEN [(IF ext._parsedDocuments = {} THEN pushLanguageSubscriptions(ext) ELSE ext)
             EXCEPT !._parsedDocuments = @ \cup {textDocument}]
    ELSE ext

updateActiveEditorParse(ext) == updateDocumentParse(ext, ext._platform._activeTextEditor)

\* the callback given to setActiveEditorChangedCallback, after the platform
\* has made activeEditor the active one
onActiveEditorChanged(ext, activeEditor) ==
    updateDocumentParse([ext EXCEPT !._platform._activeTextEditor = activeEditor], activeEditor)

\* the callback given to setConfigurationChangedCallback (the telemetry
\* endpoints it reopens hold no subscriptions and no documents)
onConfigurationChanged(ext) == updateActiveEditorParse(ext)

onTextDocumentChanged(ext, textDocument) == updateDocumentParse(ext, textDocument)

onDocumentOpened(ext, textDocument) == updateDocumentParse(ext, textDocument)

onDocumentSaved(ext, textDocument) == updateDocumentParse(ext, textDocument)

\* [ext |-> the extension afterwards, r |-> how many subscriptions it disposed]
onDocumentClosed(ext, textDocument) ==
    IF Cardinality(ext._parsedDocuments) > 0
           /\ Cardinality(ext._parsedDocuments \ {textDocument}) = 0
    THEN [ext |-> [ext EXCEPT !._parsedDocuments = @ \ {textDocument},
                              !._languageSubscriptions = <<>>,
                              !._platform = disposeEach(@, ext._languageSubscriptions)],
          r |-> Len(ext._languageSubscriptions)]
    ELSE [ext |-> [ext EXCEPT !._parsedDocuments = @ \ {textDocument}], r |-> 0]

LanguageExtension_dispose(ext) ==
    IF ~ext._disposed
    THEN [ext EXCEPT !._disposed = TRUE,
                     !._languageSubscriptions = <<>>,
                     !._basicSubscriptions = <<>>,
                     !._platform = disposeEach(disposeEach(@, ext._languageSubscriptions),
                                               ext._basicSubscriptions)]
    ELSE ext

\* where no LanguageExtension was made
NoExtension == [k |-> "none"]

\* ------------------------------------------------------- the state
VARIABLES
    lists,      \* the caller's ArrayLists: lists[1] is x, lists[2] is y
    src,        \* the Iterable a call is made on
    view,       \* the Iterable the call returned (src before any call)
    op,         \* the call made
    arr,        \* what toArray() gave after the call
    rev,        \* what iterateReverse().toArray() gave after the call
    ew,         \* what endsWith returned, when that was the call
    itA,        \* an Iterator the caller holds
    itB,        \* a second Iterator, made by a second iterate() on the same Iterable
    chain,      \* how many transformations have been stacked on itA
    ended,      \* ended[i]: some next() on iterator i has returned false
    seen,       \* seen[i]: the values iterator i has shown after its next() calls
    ret,        \* what the last call on an ArrayList returned
    added,      \* added[id]: how many add() calls ArrayList id has run
    removed,    \* removed[id]: how many of its removals returned an element
    extension   \* a LanguageExtension, with the Platform it was made for

\* (with the extension, which only the events of a LanguageExtension change)
viewVars == <<src, view, op, arr, rev, ew, extension>>

iterVars == <<itA, itB, chain, ended, seen>>

listVars == <<ret, added, removed>>

vars == <<lists, src, view, op, arr, rev, ew, itA, itB, chain, ended, seen, ret, added, removed,
         extension>>

\* the caller's ArrayLists: x = new ArrayList(s) and y = new ArrayList()
NewStore(s) == [i \in 1..2 |-> ArrayList_addEach(EmptyArrayList, IF i = 1 THEN s ELSE <<>>)]

Stores == {NewStore(s) : s \in SeqsUpTo(MaxLen)}

\* counts given to skip / take / skipLast / takeLast: absent, negative, zero,
\* and up to one more than any length
Counts == {undefined} \cup (-1 .. MaxLen + 1)

Call(name, level, cond, fn, n, y, reverse) ==
    [name |-> name, level |-> level, cond |-> cond, fn |-> fn, n |-> n, y |-> y,
     reverse |-> reverse]

NoCall == Call("new", "iterable", "none", "none", undefined, NoIterable, FALSE)

\* the arguments tried for concatenate and endsWith
Others ==
    {NoIterable} \cup
    UNION {{RawArray(s), ArrayList(s), StringIterable(s), IterableBase_map(ArrayList(s), "inc")} :
           s \in SeqsUpTo(MaxOther)}

\* the arguments of the concatenate calls that made a receiver
SourceOthers == {RawArray(<<>>), RawArray(<<2, 1>>)}

\* every Iterable one view constructor makes of x
Views(x, L) ==
    {IterableBase_where(x, c) : c \in Conditions}
    \cup {IterableBase_skip(x, n) : n \in Counts}
    \cup {IterableBase_take(x, n) : n \in Counts}
    \cup {IterableBase_skipLast(x, n, L) : n \in Counts}
    \cup {IterableBase_takeLast(x, n, L) : n \in Counts}
    \cup {IterableBase_map(x, f) : f \in MapFunctions}
    \cup {IterableBase_concatenate(x, y, L) : y \in SourceOthers}

\* the receivers: an ArrayList, a StringIterable, and the views that up to n
\* nested constructors make of them
RECURSIVE Sources(_, _)
Sources(n, L) ==
    IF n = 0 THEN {SharedArrayList(1), StringIterable(Contents(L[1]))}
    ELSE Bind(Sources(n - 1, L), LAMBDA S : S \cup UNION {Views(x, L) : x \in S})

\* the constructors have run add() once for each element
NoListCalls ==
    /\ ret = undefined
    /\ added = [i \in 1..2 |-> lists[i].count]
    /\ removed = [i \in 1..2 |-> 0]

NoIterators ==
    /\ itA = NoIterator
    /\ itB = NoIterator
    /\ chain = 0
    /\ ended = [i \in 1..2 |-> FALSE]
    /\ seen = [i \in 1..2 |-> <<>>]
    /\ NoListCalls

Init ==
    /\ lists \in Stores
    /\ src \in Sources(MaxNest, lists)
    /\ extension = NoExtension
    /\ view = src
    /\ op = NoCall
    /\ arr = IterableBase_toArray(src, lists)
    /\ rev = toArray(iterateReverse(src, lists), lists)
    /\ ew = FALSE
    /\ NoIterators

\* v = src.<constructor>(...), then v.toArray() and v.iterateReverse().toArray()
Derive(v, call) ==
    /\ op = NoCall
    /\ view' = v
    /\ op' = call
    /\ arr' = IterableBase_toArray(v, lists)
    /\ rev' = toArray(iterateReverse(v, lists), lists)
    /\ UNCHANGED <<lists, src, extension, ew, iterVars, listVars>>

Where ==
    \E c \in Conditions :
        Derive(IterableBase_where(src, c),
               Call("where", "iterable", c, "none", undefined, NoIterable, FALSE))

Skip ==
    \E n \in Counts :
        Derive(IterableBase_skip(src, n),
               Call("skip", "iterable", "none", "none", n, NoIterable, FALSE))

Take ==
    \E n \in Counts :
        Derive(IterableBase_take(src, n),
               Call("take", "iterable", "none", "none", n, NoIterable, FALSE))

SkipLast ==
    \E n \in Counts :
        Derive(IterableBase_skipLast(src, n, lists),
               Call("skipLast", "iterable", "none", "none", n, NoIterable, FALSE))

TakeLast ==
    \E n \in Counts :
        Derive(IterableBase_takeLast(src, n, lists),
               Call("takeLast", "iterable", "none", "none", n, NoIterable, FALSE))

Map ==
    \E f \in MapFunctions :
        Derive(IterableBase_map(src, f),
               Call("map", "iterable", "none", f, undefined, NoIterable, FALSE))

Concatenate ==
    \E y \in Others :
        Derive(IterableBase_concatenate(src, y, lists),
               Call("concatenate", "iterable", "none", "none", undefined, y, FALSE))

\* src.endsWith(y)
EndsWith ==
    \E y \in {o \in Others : o.k # "array"} :
        /\ op = NoCall
        /\ op' = Call("endsWith", "iterable", "none", "none", undefined, y, FALSE)
        /\ ew' = IterableBase_endsWith(src, y, lists)
        /\ UNCHANGED <<lists, src, extension, view, arr, rev, iterVars, listVars>>

\* src.iterate() or src.iterateReverse(), one transformation of that
\* iterator, then toArray() on the result
Chained(it, call) ==
    /\ op = NoCall
    /\ op' = call
    /\ arr' = toArray(it, lists)
    /\ rev' = toArray(IF call.reverse THEN iterateReverse(src, lists) ELSE iterate(src, lists),
                      lists)
    /\ UNCHANGED <<lists, src, extension, view, ew, iterVars, listVars>>

Fresh(r) == IF r THEN iterateReverse(src, lists) ELSE iterate(src, lists)

\* on iterators, the calls with an absent or degenerate argument
NoCondition == {"none"}

NoMapFunction == {"none"}

DegenerateCounts == {undefined, -1, 0}

IteratorWhere ==
    \E c \in NoCondition, r \in BOOLEAN :
        Chained(IteratorBase_where(Fresh(r), c, lists),
                Call("where", "iterator", c, "none", undefined, NoIterable, r))

IteratorSkip ==
    \E n \in DegenerateCounts, r \in BOOLEAN :
        Chained(IteratorBase_skip(Fresh(r), n),
                Call("skip", "iterator", "none", "none", n, NoIterable, r))

IteratorTake ==
    \E n \in DegenerateCounts, r \in BOOLEAN :
        Chained(IteratorBase_take(Fresh(r), n, lists),
                Call("take", "iterator", "none", "none", n, NoIterable, r))

IteratorMap ==
    \E f \in NoMapFunction, r \in BOOLEAN :
        Chained(IteratorBase_map(Fresh(r), f),
                Call("map", "iterator", "none", f, undefined, NoIterable, r))

Next ==
    \/ Where
    \/ Skip
    \/ Take
    \/ SkipLast
    \/ TakeLast
    \/ Map
    \/ Concatenate
    \/ EndsWith
    \/ IteratorWhere
    \/ IteratorSkip
    \/ IteratorTake
    \/ IteratorMap

Spec == Init /\ [][Next]_vars

\* ------------------------------------------------------- one iterator
\* The caller makes an iterator of an ArrayList or a StringIterable, stacks
\* transformations on it at any moment, and calls its methods in any order.
MaxChain == 1      \* transformations stacked on the iterator

ChainCounts == {undefined, 0, 1, 2}

ChainConditions == {"none", "even"}

ChainMapFunctions == {"none", "inc"}

\* the iterators given to concatenate: absent, or fresh on a new ArrayList
ChainOthers == {NoIterator} \cup {ArrayList_iterate(ArrayList(s)) : s \in SeqsUpTo(MaxOther)}

\* the visitors given to foreach
Visitors == {NoVisitor, Visitor("never"), Visitor("even")}

Bases == {SharedArrayList(1), StringIterable(Contents(lists[1]))}

\* the texts given to a Lexer: a letter, a digit, carriage return, line feed
LexerCharacters == {97, 49, 13, 10}

Lexers == {Lexer(t, 0) : t \in SeqsOver(LexerCharacters, MaxLen)}

\* an iterator whose values are Lex objects: the model's predicates and
\* mapping functions are functions of numbers and are not given to it
RECURSIVE overLexer(_)
overLexer(it) ==
    CASE it.k = "lexer" -> TRUE
      [] it.k \in {"where", "skip", "take", "map"} -> overLexer(it.inner)
      [] it.k = "concat" -> overLexer(it.first) \/ overLexer(it.second)
      [] OTHER -> FALSE

CallbackFits(c) == overLexer(itA) => c \in {"none", "never"}

InitIter ==
    /\ lists \in Stores
    /\ src \in Bases
    /\ extension = NoExtension
    /\ view = src
    /\ op = NoCall
    /\ arr = <<>>
    /\ rev = <<>>
    /\ ew = FALSE
    \* (a Lexer has a text of its own: it is tried beside one src only)
    /\ itA \in {iterate(src, lists), iterateReverse(src, lists)}
               \cup (IF lists[1].count = 0 /\ src.k = "list" THEN Lexers ELSE {})
    /\ itB = NoIterator
    /\ chain = 0
    /\ ended = [i \in 1..2 |-> FALSE]
    /\ seen = [i \in 1..2 |-> <<>>]
    /\ NoListCalls

\* itA = itA.<transformation>(...): a new iterator, on which nothing was called
Stack(it) ==
    /\ chain < MaxChain
    /\ itA' = it
    /\ chain' = chain + 1
    /\ ended' = [ended EXCEPT ![1] = FALSE]
    /\ UNCHANGED <<lists, viewVars, itB, seen, listVars>>

StackWhere ==
    \E c \in ChainConditions :
        CallbackFits(c) /\ Stack(IteratorBase_where(itA, c, lists))

StackSkip == \E n \in ChainCounts : Stack(IteratorBase_skip(itA, n))

StackTake == \E n \in ChainCounts : Stack(IteratorBase_take(itA, n, lists))

StackMap ==
    \E f \in ChainMapFunctions : CallbackFits(f) /\ Stack(IteratorBase_map(itA, f))

\* (MapIterator.concatenate takes an Iterator and does not test it: it is not
\* called without one)
StackConcatenate ==
    \E o \in ChainOthers :
        /\ itA.k = "map" => o # NoIterator
        /\ Stack(concatenate(itA, o))

\* a method of itA that leaves the iterator as `it`
Called(it) ==
    /\ itA' = it
    /\ UNCHANGED <<lists, viewVars, itB, chain, seen, listVars>>

CallNext ==
    \E n \in {next(itA, lists)} :
        /\ Called(n.it)
        /\ ended' = [ended EXCEPT ![1] = @ \/ ~n.r]

CallHasCurrent == Called(hasCurrent(itA, lists).it) /\ UNCHANGED ended

CallGetCurrent == Called(getCurrent(itA, lists).it) /\ UNCHANGED ended

CallTakeCurrent == Called(IteratorBase_takeCurrent(itA, lists).it) /\ UNCHANGED ended

CallAny ==
    \E c \in ChainConditions :
        CallbackFits(c) /\ Called(IteratorBase_any(itA, lists, c).it) /\ UNCHANGED ended

CallFirst ==
    \E c \in ChainConditions :
        CallbackFits(c) /\ Called(first(itA, lists, c).it) /\ UNCHANGED ended

CallForeach ==
    \E v \in Visitors :
        CallbackFits(v.brk) /\ Called(foreach(itA, lists, v).it) /\ UNCHANGED ended

CallGetCount == Called(getCount(itA, lists).it) /\ UNCHANGED ended

NextIter ==
    \/ StackWhere
    \/ StackSkip
    \/ StackTake
    \/ StackMap
    \/ StackConcatenate
    \/ CallNext
    \/ CallHasCurrent
    \/ CallGetCurrent
    \/ CallTakeCurrent
    \/ CallAny
    \/ CallFirst
    \/ CallForeach
    \/ CallGetCount

SpecIter == InitIter /\ [][NextIter]_vars

\* ------------------------------------------------------- asking an iterator
\* an iterator of an ArrayList or a Lexer, transformed, advanced and asked
\* for its state in any order
InitAsk == InitIter /\ src.k = "list"

NextAsk ==
    \/ StackWhere
    \/ StackSkip
    \/ StackTake
    \/ StackMap
    \/ StackConcatenate
    \/ CallNext
    \/ CallHasCurrent
    \/ CallGetCurrent

SpecAsk == InitAsk /\ [][NextAsk]_vars

\* ------------------------------------------------------- counting and visiting
\* The caller builds a chain on an iterator, advances it, and calls getCount()
\* or foreach() on it in any state. op records a getCount() or foreach()
\* call and is NoCall after any other call; ret is the count, arr the values
\* handed to the visitor and ew whether the visitor broke.
Visited(it, call, r, out, broke) ==
    /\ itA' = it
    /\ op' = call
    /\ ret' = r
    /\ arr' = out
    /\ ew' = broke
    /\ UNCHANGED <<lists, src, extension, view, rev, itB, ended, seen, added, removed>>

VisitStack(it) ==
    /\ chain < MaxChain
    /\ chain' = chain + 1
    /\ Visited(it, NoCall, undefined, <<>>, FALSE)

VisitWhere ==
    \E c \in ChainConditions :
        CallbackFits(c) /\ VisitStack(IteratorBase_where(itA, c, lists))

VisitSkip == \E n \in ChainCounts : VisitStack(IteratorBase_skip(itA, n))

VisitTake == \E n \in ChainCounts : VisitStack(IteratorBase_take(itA, n, lists))

VisitMap ==
    \E f \in ChainMapFunctions :
        CallbackFits(f) /\ VisitStack(IteratorBase_map(itA, f))

VisitConcatenate ==
    \E o \in ChainOthers :
        /\ itA.k = "map" => o # NoIterator
        /\ VisitStack(concatenate(itA, o))

VisitNext ==
    /\ Visited(next(itA, lists).it, NoCall, undefined, <<>>, FALSE)
    /\ UNCHANGED chain

\* op.cond is the condition on which the visitor calls control.break(),
\* op.fn tells a visitor from an undefined valueFunction
VisitForeach ==
    \E v \in Visitors :
        /\ CallbackFits(v.brk)
        /\ \E f \in {foreach(itA, lists, v)} :
              Visited(f.it,
                      Call("foreach", "iterator", v.brk,
                           IF v.def THEN "visitor" ELSE "none", undefined, NoIterable, FALSE),
                      undefined, f.out, f.broke)
        /\ UNCHANGED chain

NextVisit ==
    \/ VisitWhere
    \/ VisitSkip
    \/ VisitTake
    \/ VisitMap
    \/ VisitConcatenate
    \/ VisitNext
    \/ VisitForeach

SpecVisit == InitIter /\ [][NextVisit]_vars

\* a foreach() and an any(condition) whose visitor breaks on even values: a
\* call in which the visitor broke is recorded in op, arr and ew
BrokenOff(it, name, out, broke) ==
    Visited(it,
            IF broke THEN Call(name, "iterator", "even", "none", undefined, NoIterable, FALSE)
            ELSE NoCall,
            undefined, IF broke THEN out ELSE <<>>, broke)

BreakForeach ==
    /\ CallbackFits("even")
    /\ \E f \in {foreach(itA, lists, Visitor("even"))} : BrokenOff(f.it, "foreach", f.out, f.broke)
    /\ UNCHANGED chain

BreakAny ==
    /\ CallbackFits("even")
    /\ \E a \in {IteratorBase_any(itA, lists, "even")} : BrokenOff(a.it, "any", <<>>, a.r)
    /\ UNCHANGED chain

NextBreak ==
    \/ VisitWhere
    \/ VisitSkip
    \/ VisitTake
    \/ VisitMap
    \/ VisitConcatenate
    \/ VisitNext
    \/ BreakForeach
    \/ BreakAny

SpecBreak == InitIter /\ [][NextBreak]_vars

\* a foreach() that brings the iterator into a state for getCount()
CountForeach ==
    \E v \in Visitors :
        /\ CallbackFits(v.brk)
        /\ Visited(foreach(itA, lists, v).it, NoCall, undefined, <<>>, FALSE)
        /\ UNCHANGED chain

CountGetCount ==
    \E c \in {getCount(itA, lists)} :
        /\ Visited(c.it,
                   Call("getCount", "iterator", "none", "none", undefined, NoIterable, FALSE),
                   c.r, <<>>, FALSE)
        /\ UNCHANGED chain

NextCount ==
    \/ VisitWhere
    \/ VisitSkip
    \/ VisitTake
    \/ VisitMap
    \/ VisitConcatenate
    \/ VisitNext
    \/ CountForeach
    \/ CountGetCount

SpecCount == InitIter /\ [][NextCount]_vars

\* ------------------------------------------------------- two iterators
\* The caller calls iterate() twice (or iterateReverse() twice) on one
\* Iterable and advances the two iterators in any interleaving.
InitTwo ==
    /\ lists \in Stores
    /\ src \in Sources(MaxNest, lists)
    /\ extension = NoExtension
    /\ view = src
    /\ \E r \in BOOLEAN :
           /\ op = Call(IF r THEN "iterateReverse" ELSE "iterate", "iterable",
                        "none", "none", undefined, NoIterable, r)
           /\ itA = (IF r THEN iterateReverse(src, lists) ELSE iterate(src, lists))
           /\ itB = (IF r THEN iterateReverse(src, lists) ELSE iterate(src, lists))
    /\ arr = <<>>
    /\ rev = <<>>
    /\ ew = FALSE
    /\ chain = 0
    /\ ended = [i \in 1..2 |-> FALSE]
    /\ seen = [i \in 1..2 |-> <<>>]
    /\ NoListCalls

\* next() on one iterator, then getCurrent() on it when next() returned true
Advance(i, it) ==
    \E n \in {next(it, lists)} :
    \E g \in {getCurrent(n.it, lists)} :
        /\ ~ended[i]
        /\ ended' = [ended EXCEPT ![i] = ~n.r]
        /\ seen' = [seen EXCEPT ![i] = IF n.r THEN Append(@, g.r) ELSE @]
        /\ IF i = 1 THEN itA' = (IF n.r THEN g.it ELSE n.it) /\ itB' = itB
                    ELSE itB' = (IF n.r THEN g.it ELSE n.it) /\ itA' = itA
        /\ UNCHANGED <<lists, viewVars, chain, listVars>>

NextA == Advance(1, itA)

NextB == Advance(2, itB)

NextTwo ==
    \/ NextA
    \/ NextB

SpecTwo == InitTwo /\ [][NextTwo]_vars

\* ------------------------------------------------------- ArrayList calls
\* The caller holds x (lists[1]), y (lists[2]) and a view made of them
\* before the calls, and calls the methods of x and y; after each call it
\* reads view.toArray().
MaxAdds == 3       \* add() calls on x and y together, the constructor's included

Indices == {undefined} \cup (-1 .. MaxLen + 1)

ListCall(name, id, index, value, y) ==
    [name |-> name, level |-> "list", cond |-> "none", fn |-> "none", n |-> index,
     y |-> y, reverse |-> FALSE, id |-> id, value |-> value]

\* the values given to addAll
AddAllValues ==
    {NoIterable} \cup UNION {{RawArray(s), ArrayList(s)} : s \in SeqsUpTo(MaxOther)}

\* the views of x made before the calls
ListViews ==
    {SharedArrayList(1),
     IterableBase_where(SharedArrayList(1), "even"),
     IterableBase_map(SharedArrayList(1), "inc"),
     IterableBase_concatenate(SharedArrayList(1), SharedArrayList(2), lists)}

InitList ==
    /\ \E s \in SeqsUpTo(MaxLen) :
           /\ lists = NewStore(s)
           /\ op = ListCall("new", 1, undefined, undefined, RawArray(s))
    /\ src = SharedArrayList(1)
    /\ extension = NoExtension
    /\ view \in ListViews
    /\ arr = IterableBase_toArray(view, lists)
    /\ rev = <<>>
    /\ ew = FALSE
    /\ NoIterators

\* a call on ArrayList id that ran `adds` add() calls and left `res`
ListCalled(id, call, res, adds) ==
    /\ lists' = [lists EXCEPT ![id] = res.list]
    /\ op' = call
    /\ ret' = res.r
    /\ added' = [added EXCEPT ![id] = @ + adds]
    /\ removed' = [removed EXCEPT ![id] = IF call.name \in {"removeAt", "remove", "removeFirst", "removeLast"}
                                               /\ isDefined(res.r)
                                            THEN @ + 1 ELSE @]
    /\ arr' = IterableBase_toArray(view, lists')
    /\ UNCHANGED <<src, extension, view, rev, ew, iterVars>>

AddsLeft == MaxAdds - (added[1] + added[2])

ListAdd ==
    \E id \in 1..2, v \in Values :
        /\ AddsLeft >= 1
        /\ ListCalled(id, ListCall("add", id, undefined, v, NoIterable),
                      [list |-> ArrayList_add(lists[id], v), r |-> undefined], 1)

ListAddAll ==
    \E y \in AddAllValues :
        /\ AddsLeft >= Len(ArrayList_addAll(y, lists))
        /\ ListCalled(1, ListCall("addAll", 1, undefined, undefined, y),
                      [list |-> ArrayList_addEach(lists[1], ArrayList_addAll(y, lists)),
                       r |-> undefined],
                      Len(ArrayList_addAll(y, lists)))

ListSet ==
    \E i \in Indices, v \in Values :
        ListCalled(1, ListCall("set", 1, i, v, NoIterable), ArrayList_set(lists[1], i, v), 0)

ListSetLast ==
    \E v \in Values :
        ListCalled(1, ListCall("setLast", 1, undefined, v, NoIterable),
                   ArrayList_setLast(lists[1], v), 0)

ListGet ==
    \E i \in Indices :
        ListCalled(1, ListCall("get", 1, i, undefined, NoIterable),
                   [list |-> lists[1], r |-> ArrayList_get(SharedArrayList(1), i, lists)], 0)

ListRemoveAt ==
    \E i \in Indices :
        ListCalled(1, ListCall("removeAt", 1, i, undefined, NoIterable),
                   ArrayList_removeAt(lists[1], i), 0)

ListRemove ==
    \E v \in Values :
        ListCalled(1, ListCall("remove", 1, undefined, v, NoIterable),
                   ArrayList_remove(lists[1], v), 0)

ListRemoveFirst ==
    ListCalled(1, ListCall("removeFirst", 1, undefined, undefined, NoIterable),
               ArrayList_removeFirst(lists[1]), 0)

ListRemoveLast ==
    \E id \in 1..2 :
        ListCalled(id, ListCall("removeLast", id, undefined, undefined, NoIterable),
                   ArrayList_removeLast(lists[id]), 0)

NextList ==
    \/ ListAdd
    \/ ListAddAll
    \/ ListSet
    \/ ListSetLast
    \/ ListGet
    \/ ListRemoveAt
    \/ ListRemove
    \/ ListRemoveFirst
    \/ ListRemoveLast

SpecList == InitList /\ [][NextList]_vars

\* ------------------------------------------------------- calls that read a view
\* src.<method>(...) on a receiver that was just made
Query(call, result) ==
    /\ op = NoCall
    /\ op' = call
    /\ ret' = result
    /\ UNCHANGED <<lists, src, extension, view, arr, rev, ew, iterVars, added, removed>>

Get ==
    \E i \in Indices :
        Query(Call("get", "iterable", "none", "none", i, NoIterable, FALSE), get(src, i, lists))

GetLast ==
    \E i \in Indices :
        Query(Call("getLast", "iterable", "none", "none", i, NoIterable, FALSE),
              getLast(src, i, lists))

First ==
    \E c \in Conditions :
        Query(Call("first", "iterable", c, "none", undefined, NoIterable, FALSE),
              IterableBase_first(src, c, lists))

Last ==
    \E c \in Conditions :
        Query(Call("last", "iterable", c, "none", undefined, NoIterable, FALSE),
              IterableBase_last(src, c, lists))

NextQuery ==
    \/ Get
    \/ GetLast
    \/ First
    \/ Last

SpecQuery == Init /\ [][NextQuery]_vars

\* ------------------------------------------------------- a StringIterator
\* the bounds a StringIterator is made with: forwards over text[s..e-1],
\* backwards over text[s], ..., text[e+1], all of them characters of the text
StringBounds(text) ==
    {<<s, e>> \in (0 .. Len(text)) \X (-1 .. Len(text)) :
        \/ s <= e
        \/ e < s /\ s < Len(text)}

InitString ==
    /\ lists = NewStore(<<>>)
    /\ \E text \in SeqsUpTo(MaxLen) : \E b \in StringBounds(text) :
           /\ src = StringIterable(text)
           /\ itA = StringIterator(text, b[1], b[2])
    /\ extension = NoExtension
    /\ view = src
    /\ op = Call("new", "iterator", "none", "none", undefined, NoIterable, FALSE)
    /\ arr = <<>>
    /\ rev = <<>>
    /\ ew = FALSE
    /\ itB = NoIterator
    /\ chain = 0
    /\ ended = [i \in 1..2 |-> FALSE]
    /\ seen = [i \in 1..2 |-> <<>>]
    /\ NoListCalls

\* a method of the StringIterator that leaves it as `it` and returns `result`
StringCalled(name, it, result) ==
    /\ itA' = it
    /\ op' = Call(name, "iterator", "none", "none", undefined, NoIterable, FALSE)
    /\ ret' = result
    /\ UNCHANGED <<lists, src, extension, view, arr, rev, ew, itB, chain, added, removed>>

\* next(), and getCurrent() after it when it returned true
StringNext ==
    \E n \in {StringIterator_next(itA)} :
        /\ StringCalled("next", n.it, n.r)
        /\ ended' = [ended EXCEPT ![1] = @ \/ ~n.r]
        /\ seen' = [seen EXCEPT ![1] = IF n.r THEN Append(@, StringIterator_getCurrent(n.it))
                                       ELSE @]

StringHasCurrent ==
    /\ StringCalled("hasCurrent", itA, StringIterator_hasCurrent(itA))
    /\ UNCHANGED <<ended, seen>>

StringGetCurrent ==
    /\ StringCalled("getCurrent", itA, StringIterator_getCurrent(itA))
    /\ UNCHANGED <<ended, seen>>

NextString ==
    \/ StringNext
    \/ StringHasCurrent
    \/ StringGetCurrent

SpecString == InitString /\ [][NextString]_vars

\* ------------------------------------------------------- a Lexer
MaxText == 3       \* longest text given to the Lexer

\* a letter, a digit, carriage return, line feed and "z", which isLetter
\* rejects
LexTextCharacters == LexerCharacters \cup {122}

\* "ab12 }"
LexScenario == <<97, 98, 49, 50, 32, 125>>

\* every ASCII character as a text of its own runs every case of the switch
LexTexts ==
    SeqsOver(LexTextCharacters, MaxText) \cup {LexScenario} \cup {<<c>> : c \in 0..127}

\* the texts with the offsets they are lexed at
LexInputs == {<<text, 2>> : text \in LexTexts} \cup {<<LexScenario, 0>>}

\* before the Lexer is made
InitLex ==
    /\ lists = NewStore(<<>>)
    /\ src = StringIterable(<<>>)
    /\ extension = NoExtension
    /\ view = src
    /\ op = NoCall
    /\ arr = <<>>
    /\ rev = <<>>
    /\ ew = FALSE
    /\ itA = NoIterator
    /\ itB = NoIterator
    /\ chain = 0
    /\ ended = [i \in 1..2 |-> FALSE]
    /\ seen = [i \in 1..2 |-> <<>>]
    /\ ret = NoLex
    /\ added = [i \in 1..2 |-> 0]
    /\ removed = [i \in 1..2 |-> 0]

\* itA = new Lexer(text, k)
LexNew ==
    /\ itA = NoIterator
    /\ \E in \in LexInputs :
        /\ src' = StringIterable(in[1])
        /\ UNCHANGED extension
        /\ view' = StringIterable(in[1])
        /\ itA' = Lexer(in[1], in[2])
        /\ op' = Call("new", "iterator", "none", "none", in[2], NoIterable, FALSE)
        /\ ret' = Lexer_getCurrent(Lexer(in[1], in[2]))
        /\ UNCHANGED <<lists, arr, rev, ew, itB, chain, ended, seen, added, removed>>

\* next() and then getCurrent(): ended[1] and seen[1] say what next()
\* returned, ret is what getCurrent() returned
LexNext ==
    /\ itA # NoIterator
    /\ \E n \in {Lexer_next(itA)} :
        /\ itA' = n.it
        /\ op' = Call("next", "iterator", "none", "none", undefined, NoIterable, FALSE)
        /\ ended' = [ended EXCEPT ![1] = @ \/ ~n.r]
        /\ seen' = [seen EXCEPT ![1] = IF n.r THEN Append(@, Lexer_getCurrent(n.it)) ELSE @]
        /\ ret' = Lexer_getCurrent(n.it)
        /\ UNCHANGED <<lists, src, extension, view, arr, rev, ew, itB, chain, added, removed>>

NextLex ==
    \/ LexNew
    \/ LexNext

SpecLex == InitLex /\ [][NextLex]_vars

\* the caller makes the Lexer and goes on calling next()
SpecLexFair == SpecLex /\ WF_vars(NextLex)

\* ------------------------------------------------------- a Map
\* The caller makes a Map and calls add and addAll on it; arr is the log of
\* the pairs given to add and addAll so far, in call order.
MapKeys == {1, 2, 3}

MapValues == {1, 2}

MapPairs == {KeyValuePair(key, value) : key \in MapKeys, value \in MapValues}

\* the arguments of addAll that fit into the log: nothing, arrays, ArrayLists
PairCollections(n) ==
    {NoIterable} \cup {RawArray(s) : s \in SeqsOver(MapPairs, n)}
                 \cup {ArrayList(s) : s \in SeqsOver(MapPairs, n)}

InitMap ==
    /\ lists = Map_constructor(NoIterable)
    /\ src = Map_pairs
    /\ extension = NoExtension
    /\ view = src
    /\ op = NoCall
    /\ arr = <<>>
    /\ rev = <<>>
    /\ ew = FALSE
    /\ itA = NoIterator
    /\ itB = NoIterator
    /\ chain = 0
    /\ ended = [i \in 1..2 |-> FALSE]
    /\ seen = [i \in 1..2 |-> <<>>]
    /\ ret = undefined
    /\ added = [i \in 1..2 |-> 0]
    /\ removed = [i \in 1..2 |-> 0]

MapAdd ==
    /\ Len(arr) < MaxAdds
    /\ \E key \in MapKeys, value \in MapValues :
          /\ lists' = Map_add(lists, key, value)
          /\ arr' = Append(arr, KeyValuePair(key, value))
          /\ op' = Call("add", "map", "none", "none", KeyValuePair(key, value), NoIterable, FALSE)
    /\ UNCHANGED <<src, extension, view, rev, ew, iterVars, listVars>>

MapAddAll ==
    /\ \E y \in PairCollections(MaxAdds - Len(arr)) :
          /\ lists' = Map_addAll(lists, y)
          /\ arr' = arr \o (IF y = NoIterable THEN <<>> ELSE y.data)
          /\ op' = Call("addAll", "map", "none", "none", undefined, y, FALSE)
    /\ UNCHANGED <<src, extension, view, rev, ew, iterVars, listVars>>

NextMap ==
    \/ MapAdd
    \/ MapAddAll

SpecMap == InitMap /\ [][NextMap]_vars

\* ------------------------------------------------------- a Stack
\* The caller makes a Stack and calls push, pop and peek on it; arr holds the
\* values pushed and not yet popped, oldest first, ret the value returned.
StackValues == {1, 2, 3}

InitStack ==
    /\ lists = [i \in 1..2 |-> EmptyArrayList]
    /\ src = Stack_values
    /\ extension = NoExtension
    /\ view = src
    /\ op = NoCall
    /\ arr = <<>>
    /\ rev = <<>>
    /\ ew = FALSE
    /\ itA = NoIterator
    /\ itB = NoIterator
    /\ chain = 0
    /\ ended = [i \in 1..2 |-> FALSE]
    /\ seen = [i \in 1..2 |-> <<>>]
    /\ ret = undefined
    /\ added = [i \in 1..2 |-> 0]
    /\ removed = [i \in 1..2 |-> 0]

StackCall(name, n) == Call(name, "stack", "none", "none", n, NoIterable, FALSE)

CallPush ==
    /\ Len(arr) < MaxAdds
    /\ \E value \in StackValues :
          /\ lists' = Stack_push(lists, value)
          /\ arr' = Append(arr, value)
          /\ op' = StackCall("push", value)
    /\ ret' = undefined
    /\ UNCHANGED <<src, extension, view, rev, ew, iterVars, added, removed>>

CallPop ==
    /\ \E p \in {Stack_pop(lists)} :
          /\ lists' = p.L
          /\ ret' = p.r
    /\ arr' = SubSeq(arr, 1, Len(arr) - 1)
    /\ op' = StackCall("pop", undefined)
    /\ UNCHANGED <<src, extension, view, rev, ew, iterVars, added, removed>>

CallPeek ==
    /\ ret' = Stack_peek(lists)
    /\ op' = StackCall("peek", undefined)
    /\ UNCHANGED <<lists, src, extension, view, arr, rev, ew, iterVars, added, removed>>

NextStack ==
    \/ CallPush
    \/ CallPop
    \/ CallPeek

SpecStack == InitStack /\ [][NextStack]_vars

\* ------------------------------------------------------- a Queue
\* The caller makes a Queue and calls enqueue and dequeue on it; arr holds the
\* values enqueued and not yet dequeued, oldest first, seen[2] every value
\* enqueued and seen[1] every value a dequeue() of a non-empty queue returned.
QueueValues == {1, 2, 3}

InitQueue ==
    /\ lists = [i \in 1..2 |-> EmptyArrayList]
    /\ src = Queue_values
    /\ extension = NoExtension
    /\ view = src
    /\ op = NoCall
    /\ arr = <<>>
    /\ rev = <<>>
    /\ ew = FALSE
    /\ itA = NoIterator
    /\ itB = NoIterator
    /\ chain = 0
    /\ ended = [i \in 1..2 |-> FALSE]
    /\ seen = [i \in 1..2 |-> <<>>]
    /\ ret = undefined
    /\ added = [i \in 1..2 |-> 0]
    /\ removed = [i \in 1..2 |-> 0]

QueueCall(name, n) == Call(name, "queue", "none", "none", n, NoIterable, FALSE)

CallEnqueue ==
    /\ Len(seen[2]) < MaxAdds
    /\ \E value \in QueueValues :
          /\ lists' = Queue_enqueue(lists, value)
          /\ arr' = Append(arr, value)
          /\ seen' = [seen EXCEPT ![2] = Append(@, value)]
          /\ op' = QueueCall("enqueue", value)
    /\ ret' = undefined
    /\ UNCHANGED <<src, extension, view, rev, ew, itA, itB, chain, ended, added, removed>>

CallDequeue ==
    /\ \E d \in {Queue_dequeue(lists)} :
          /\ lists' = d.L
          /\ ret' = d.r
          /\ seen' = [seen EXCEPT ![1] = IF arr = <<>> THEN @ ELSE Append(@, d.r)]
    /\ arr' = IF arr = <<>> THEN arr ELSE Tail(arr)
    /\ op' = QueueCall("dequeue", undefined)
    /\ UNCHANGED <<src, extension, view, rev, ew, itA, itB, chain, ended, added, removed>>

NextQueue ==
    \/ CallEnqueue
    \/ CallDequeue

SpecQueue == InitQueue /\ [][NextQueue]_vars

\* ------------------------------------------------------- concatenating two iterators
\* The caller holds an iterator a (itA) and an iterator b (itB) over an
\* ArrayList of its own, advances each any number of times, and then calls
\* a.concatenate(b).toArray(); arr is the array returned.
InitConcat ==
    /\ lists \in Stores
    /\ src \in Bases
    /\ extension = NoExtension
    /\ view = src
    /\ op = NoCall
    /\ arr = <<>>
    /\ rev = <<>>
    /\ ew = FALSE
    /\ itA = iterate(src, lists)
    /\ itB \in {ArrayList_iterate(ArrayList(s)) : s \in SeqsUpTo(MaxLen)}
    /\ chain = 0
    /\ ended = [i \in 1..2 |-> FALSE]
    /\ seen = [i \in 1..2 |-> <<>>]
    /\ NoListCalls

ConcatCall(name, n) == Call(name, "iterator", "none", "none", n, NoIterable, FALSE)

ConcatNextA ==
    /\ chain = 0
    /\ \E n \in {next(itA, lists)} :
          /\ itA' = n.it
          /\ ended' = [ended EXCEPT ![1] = ~n.r]
    /\ op' = ConcatCall("next", 1)
    /\ UNCHANGED <<lists, src, extension, view, arr, rev, ew, itB, chain, seen, listVars>>

ConcatNextB ==
    /\ chain = 0
    /\ \E n \in {next(itB, lists)} :
          /\ itB' = n.it
          /\ ended' = [ended EXCEPT ![2] = ~n.r]
    /\ op' = ConcatCall("next", 2)
    /\ UNCHANGED <<lists, src, extension, view, arr, rev, ew, itA, chain, seen, listVars>>

ConcatToArray ==
    /\ chain = 0
    /\ chain' = 1
    /\ \E t \in {IteratorBase_toArray(concatenate(itA, itB), lists)} :
          /\ itA' = t.it
          /\ arr' = t.r
    /\ op' = ConcatCall("toArray", undefined)
    /\ UNCHANGED <<lists, src, extension, view, rev, ew, itB, ended, seen, listVars>>

NextConcat ==
    \/ ConcatNextA
    \/ ConcatNextB
    \/ ConcatToArray

SpecConcat == InitConcat /\ [][NextConcat]_vars

\* ------------------------------------------------------- finding and removing a value
\* The caller makes an ArrayList and calls indexOf and remove on it, without
\* a comparer (op.cond = "none") or with one; op.value is the value looked for.
SearchValues == Values \cup {3}

\* no comparer, and the comparer of Map.add, for which 1, 2 and 3 all match
Comparers == {"none", "key"}

InitSearch ==
    /\ \E s \in SeqsUpTo(MaxAdds) :
           /\ lists = NewStore(s)
           /\ op = ListCall("new", 1, undefined, undefined, RawArray(s))
    /\ src = SharedArrayList(1)
    /\ extension = NoExtension
    /\ view = src
    /\ arr = <<>>
    /\ rev = <<>>
    /\ ew = FALSE
    /\ NoIterators

Searched(call, res) ==
    /\ lists' = [lists EXCEPT ![1] = res.list]
    /\ op' = call
    /\ ret' = res.r
    /\ UNCHANGED <<src, extension, view, arr, rev, ew, iterVars, added, removed>>

SearchIndexOf ==
    \E v \in SearchValues, c \in Comparers :
        Searched([ListCall("indexOf", 1, undefined, v, NoIterable) EXCEPT !.cond = c],
                 [list |-> lists[1],
                  r |-> IF c = "none" THEN ArrayList_indexOf(lists[1], v)
                        ELSE ArrayList_indexOf_comparer(lists[1], v, c)])

SearchRemove ==
    \E v \in SearchValues, c \in Comparers :
        Searched([ListCall("remove", 1, undefined, v, NoIterable) EXCEPT !.cond = c],
                 IF c = "none" THEN ArrayList_remove(lists[1], v)
                 ELSE ArrayList_remove_comparer(lists[1], v, c))

NextSearch ==
    \/ SearchIndexOf
    \/ SearchRemove

SpecSearch == InitSearch /\ [][NextSearch]_vars

\* ------------------------------------------------------- a LanguageExtension
\* a LanguageExtension on a Platform that delivers the events whose callback
\* it holds, in any order
MaxDocuments == 2  \* text documents of the extension's language

\* the documents of the extension's language, and document 0 of another one
TextDocuments == 0 .. MaxDocuments

InitExtension ==
    /\ lists = [i \in 1..2 |-> EmptyArrayList]
    /\ src = NoIterable
    /\ view = src
    /\ op = [name |-> "new", textDocument |-> undefined]
    /\ arr = <<>>
    /\ rev = <<>>
    /\ ew = FALSE
    /\ itA = NoIterator
    /\ itB = NoIterator
    /\ chain = 0
    /\ ended = [i \in 1..2 |-> FALSE]
    /\ seen = [i \in 1..2 |-> <<>>]
    /\ ret = 0
    /\ added = [i \in 1..2 |-> 0]
    /\ removed = [i \in 1..2 |-> 0]
    /\ \E hover \in BOOLEAN, completions \in BOOLEAN, formatted \in BOOLEAN,
          unsets \in BOOLEAN, activeTextEditor \in TextDocuments \cup {undefined} :
           extension = LanguageExtension(hover, completions, formatted,
                                         Platform(activeTextEditor, unsets))

\* the platform calls the callback `name`, which leaves the extension as ext
\* after disposing `disposed` subscriptions
Delivered(name, textDocument, ext, disposed) ==
    /\ name \in extension._platform.callbacks
    /\ extension' = ext
    /\ op' = [name |-> name, textDocument |-> textDocument]
    /\ ret' = disposed
    /\ UNCHANGED <<lists, src, view, arr, rev, ew, iterVars, added, removed>>

ActiveEditorChanged ==
    \E activeEditor \in TextDocuments \cup {undefined} :
        /\ activeEditor # extension._platform._activeTextEditor
        /\ Delivered("activeEditorChanged", activeEditor,
                     onActiveEditorChanged(extension, activeEditor), 0)

ConfigurationChanged ==
    Delivered("configurationChanged", undefined, onConfigurationChanged(extension), 0)

TextDocumentOpened ==
    \E textDocument \in TextDocuments :
        Delivered("textDocumentOpened", textDocument,
                  onDocumentOpened(extension, textDocument), 0)

TextDocumentSaved ==
    \E textDocument \in TextDocuments :
        Delivered("textDocumentSaved", textDocument,
                  onDocumentSaved(extension, textDocument), 0)

TextDocumentChanged ==
    \E textDocument \in TextDocuments :
        Delivered("textDocumentChanged", textDocument,
                  onTextDocumentChanged(extension, textDocument), 0)

TextDocumentClosed ==
    \E textDocument \in TextDocuments :
        \E closed \in {onDocumentClosed(extension, textDocument)} :
            Delivered("textDocumentClosed", textDocument, closed.ext, closed.r)

Dispose ==
    /\ extension' = LanguageExtension_dispose(extension)
    /\ op' = [name |-> "dispose", textDocument |-> undefined]
    /\ ret' = Len(extension._languageSubscriptions) + Len(extension._basicSubscriptions)
    /\ UNCHANGED <<lists, src, view, arr, rev, ew, iterVars, added, removed>>

NextExtension ==
    \/ ActiveEditorChanged
    \/ ConfigurationChanged
    \/ TextDocumentOpened
    \/ TextDocumentSaved
    \/ TextDocumentChanged
    \/ TextDocumentClosed
    \/ Dispose

SpecExtension == InitExtension /\ [][NextExtension]_vars

\* ------------------------------------------------------- walking a changing ArrayList
\* a forward iterator of an ArrayList, advanced in any order with calls
\* that add to the list and remove from it
InitWalk ==
    /\ lists \in Stores
    /\ src = SharedArrayList(1)
    /\ extension = NoExtension
    /\ view = src
    /\ op = NoCall
    /\ arr = IterableBase_toArray(view, lists)
    /\ rev = <<>>
    /\ ew = FALSE
    /\ itA = ArrayList_iterate(src)
    /\ itB = NoIterator
    /\ chain = 0
    /\ ended = [i \in 1..2 |-> FALSE]
    /\ seen = [i \in 1..2 |-> <<>>]
    /\ NoListCalls

WalkAdd ==
    \E v \in Values :
        /\ AddsLeft >= 1
        /\ ListCalled(1, ListCall("add", 1, undefined, v, NoIterable),
                      [list |-> ArrayList_add(lists[1], v), r |-> undefined], 1)

WalkRemoveAt ==
    \E i \in Indices :
        ListCalled(1, ListCall("removeAt", 1, i, undefined, NoIterable),
                   ArrayList_removeAt(lists[1], i), 0)

WalkRemoveFirst ==
    ListCalled(1, ListCall("removeFirst", 1, undefined, undefined, NoIterable),
               ArrayList_removeFirst(lists[1]), 0)

WalkRemoveLast ==
    ListCalled(1, ListCall("removeLast", 1, undefined, undefined, NoIterable),
               ArrayList_removeLast(lists[1]), 0)

\* (the list never holds more than MaxAdds values: an index past MaxAdds is
\* past every count the list can have, and is advanced no further)
WalkNext ==
    \E n \in {ArrayListForwardIterator_next(itA, lists)} :
        /\ isDefined(itA.idx) => itA.idx <= MaxAdds
        /\ itA' = n.it
        /\ op' = ListCall("next", 1, undefined, undefined, NoIterable)
        /\ ret' = n.r
        /\ UNCHANGED <<lists, src, extension, view, arr, rev, ew, itB, chain, ended, seen,
                       added, removed>>

NextWalk ==
    \/ WalkAdd
    \/ WalkRemoveAt
    \/ WalkRemoveFirst
    \/ WalkRemoveLast
    \/ WalkNext

SpecWalk == InitWalk /\ [][NextWalk]_vars

\* ------------------------------------------------------- the claims on views
\* the sequences the claims are stated with
Reverse(s) == [i \in 1..Len(s) |-> s[Len(s) + 1 - i]]

Min(a, b) == IF a < b THEN a ELSE b

Filter(s, c) == SelectSeq(s, LAMBDA v : condition(c, v))

DropFirst(s, n) == SubSeq(s, Min(n, Len(s)) + 1, Len(s))

TakeFirst(s, n) == SubSeq(s, 1, Min(n, Len(s)))

TakeEnd(s, n) == SubSeq(s, Len(s) - Min(n, Len(s)) + 1, Len(s))

\* x.toArray() of the receiver, and of an argument (a raw array is its own)
SrcArr == IterableBase_toArray(src, lists)

ArgArr(y) ==
    CASE y.k = "undefined" -> <<>>
      [] y.k = "array" -> y.data
      [] OTHER -> IterableBase_toArray(y, lists)

IterableCall(name) == op.name = name /\ op.level = "iterable"

IteratorCall(name) == op.name = name /\ op.level = "iterator"

\* C1: x.where(p).toArray() is the subsequence of x.toArray() of the elements
\* that satisfy p, in their original order (for an ArrayList x and for
\* every other receiver of the model).
C1_WhereFilters ==
    (IterableCall("where") /\ op.cond # "none") => arr = Filter(SrcArr, op.cond)

C1_Witness ==
    /\ IterableCall("where") /\ op.cond = "even" /\ src.k = "list"
    /\ SrcArr = <<1, 2>> /\ arr = <<2>>

\* C2: for n >= 0, x.skip(n).toArray() is x.toArray() without its first n
\* elements, and is empty when n >= x.getCount().
C2_SkipDropsFirst ==
    (IterableCall("skip") /\ isDefined(op.n) /\ op.n >= 0) =>
        /\ arr = DropFirst(SrcArr, op.n)
        /\ op.n >= Iterable_getCount(src, lists) => arr = <<>>

C2_Witness ==
    /\ IterableCall("skip") /\ op.n = 1 /\ src.k = "whereI"
    /\ Len(SrcArr) = 2 /\ arr = <<SrcArr[2]>>

\* C3: for n >= 0, x.take(n).toArray() is the first min(n, count) elements of
\* x.toArray(), in order.
C3_TakeKeepsFirst ==
    (IterableCall("take") /\ isDefined(op.n) /\ op.n >= 0) => arr = TakeFirst(SrcArr, op.n)

C3_Witness ==
    /\ IterableCall("take") /\ op.n = 1 /\ src.k = "mapI"
    /\ Len(SrcArr) = 2 /\ arr = <<SrcArr[1]>>

\* C4: x.concatenate(y).toArray() is x.toArray() followed by y.toArray(), for
\* y an Iterable or a raw array, empty or not.
C4_ConcatenateAppends ==
    (IterableCall("concatenate") /\ op.y.k # "undefined") => arr = SrcArr \o ArgArr(op.y)

C4_Witness ==
    /\ IterableCall("concatenate") /\ op.y.k = "array" /\ op.y.data # <<>>
    /\ Len(SrcArr) = 2 /\ Len(arr) = 3

\* C5: for every iterable made of an ArrayList or a StringIterable by nested
\* where, skip, take, skipLast, takeLast, map and concatenate, with any
\* count, iterateReverse().toArray() is the reverse of iterate().toArray().
C5_ReverseIsReverse == op.level = "iterable" => rev = Reverse(arr)

C5_Witness ==
    /\ IterableCall("take") /\ op.n = 2 /\ src.k = "concatI" /\ view.k = "takeI"
    /\ Len(SrcArr) = 3 /\ Len(arr) = 2 /\ arr[1] # arr[2] /\ rev = <<arr[2], arr[1]>>

\* C6: x.endsWith(y) is true exactly when y is defined and non-empty,
\* y.getCount() <= x.getCount() and the last y.getCount() elements of x are
\* equal, position by position, to the elements of y.
C6_EndsWithIsSuffix ==
    IterableCall("endsWith") =>
        (ew <=> /\ op.y.k # "undefined"
                /\ ArgArr(op.y) # <<>>
                /\ Len(ArgArr(op.y)) <= Len(SrcArr)
                /\ TakeEnd(SrcArr, Len(ArgArr(op.y))) = ArgArr(op.y))

C6_Witness ==
    /\ IterableCall("endsWith") /\ ew /\ Len(SrcArr) = 2 /\ SrcArr[1] # SrcArr[2]
    /\ Len(ArgArr(op.y)) = 1

\* C10: absent or degenerate arguments degrade, on iterables and on
\* iterators alike: where(undefined) gives the source's sequence,
\* map(undefined) the empty one, skip(n) with n undefined, 0 or negative the
\* source's sequence and take(n) with n undefined, 0 or negative the empty one.
\* (After a call on an iterator, rev holds the source's sequence in the
\* direction of that iterator.)
Degenerate(n) == ~isDefined(n) \/ n <= 0

C10_DegenerateArguments ==
    /\ (IterableCall("where") /\ op.cond = "none") => arr = SrcArr
    /\ (IterableCall("map") /\ op.fn = "none") => arr = <<>>
    /\ (IterableCall("skip") /\ Degenerate(op.n)) => arr = SrcArr
    /\ (IterableCall("take") /\ Degenerate(op.n)) => arr = <<>>
    /\ (IteratorCall("where") /\ op.cond = "none") => arr = rev
    /\ (IteratorCall("map") /\ op.fn = "none") => arr = <<>>
    /\ (IteratorCall("skip") /\ Degenerate(op.n)) => arr = rev
    /\ (IteratorCall("take") /\ Degenerate(op.n)) => arr = <<>>

C10_Witness ==
    /\ IteratorCall("take") /\ op.n = 0 /\ op.reverse /\ Len(rev) = 2 /\ arr = <<>>

\* ------------------------------------------------------- the claims on one iterator
\* C8: once a next() call has returned false, every later next() call
\* returns false and hasCurrent() stays false (the backing collection is not
\* mutated: no action of this specification changes lists).
C8_ExhaustedStays ==
    ended[1] => (~hasCurrent(itA, lists).r /\ ~next(itA, lists).r)

C8_Witness ==
    /\ ended[1] /\ itA.k = "take" /\ itA.toTake = 1 /\ itA.taken = 2
    /\ hasCurrent(itA.inner, lists).r

\* C9: in every state reachable by next(), takeCurrent(), any(), first(),
\* foreach() and getCount() calls, on an iterator and on every chain built
\* on it, hasCurrent() implies hasStarted().
C9_CurrentImpliesStarted == hasCurrent(itA, lists).r => hasStarted(itA)

\* ------------------------------------------------------- the claims on two iterators
\* the element sequence of an Iterable, by the meaning of its constructors
RECURSIVE Elements(_)
Elements(x) ==
    CASE x.k = "list" -> Data(x, lists)
      [] x.k = "string" -> x.text
      [] x.k = "whereI" -> Filter(Elements(x.inner), x.cond)
      [] x.k = "skipI" -> DropFirst(Elements(x.inner), x.toSkip)
      [] x.k = "takeI" -> TakeFirst(Elements(x.inner), x.toTake)
      [] x.k = "mapI" ->
            [i \in 1..Len(Elements(x.inner)) |-> mapFunction(x.fn, Elements(x.inner)[i])]
      [] x.k = "concatI" -> Elements(x.first) \o Elements(x.second)

Expected == IF op.reverse THEN Reverse(Elements(src)) ELSE Elements(src)

\* an iterator as the caller sees it
Observed(it) ==
    <<hasStarted(it), hasCurrent(it, lists).r, getCurrent(it, lists).r>>

\* a fresh iterator of src after n next() calls and nothing else
RECURSIVE Alone(_, _)
Alone(it, n) == IF n = 0 THEN it ELSE Alone(next(it, lists).it, n - 1)

Calls(i) == Len(seen[i]) + (IF ended[i] THEN 1 ELSE 0)

\* C7: two iterators made by two iterate() (or iterateReverse()) calls on
\* one iterable are independent: in every interleaving of their next()
\* calls each shows the element sequence of the iterable in order, all of it
\* once next() has returned false, and what each shows of itself
\* (hasStarted, hasCurrent, getCurrent) is what it would show had the other
\* never been advanced.
C7_IndependentIterators ==
    /\ \A i \in 1..2 :
          /\ Len(seen[i]) <= Len(Expected)
          /\ seen[i] = SubSeq(Expected, 1, Len(seen[i]))
          /\ ended[i] => seen[i] = Expected
    /\ Observed(itA) = Observed(Alone(Fresh(op.reverse), Calls(1)))
    /\ Observed(itB) = Observed(Alone(Fresh(op.reverse), Calls(2)))

C7_Witness ==
    /\ src.k = "skipI" /\ ~op.reverse
    /\ ended[1] /\ Len(seen[1]) = 1 /\ ~ended[2] /\ seen[2] = <<>> /\ ~hasStarted(itB)

\* ------------------------------------------------------- the claims on ArrayList
\* C11: a view made as x.where(p), x.map(f) or x.concatenate(y) is never a
\* cached result: after elements were added to or removed from x or y,
\* view.toArray() is the transformation of the contents x and y have then.
C11_ViewsAreLive ==
    arr = CASE view.k = "whereI" -> Filter(Contents(lists[1]), view.cond)
            [] view.k = "mapI" ->
                  [i \in 1..lists[1].count |-> mapFunction(view.fn, Contents(lists[1])[i])]
            [] view.k = "concatI" -> Contents(lists[1]) \o Contents(lists[2])
            [] OTHER -> Contents(lists[1])

\* C12: new ArrayList(a).toArray() has the length and the elements of a, in
\* the order of a, and getCount() is a.length; the empty array included.
C12_ConstructorRoundTrip ==
    op.name = "new" =>
        /\ IterableBase_toArray(SharedArrayList(1), lists) = op.y.data
        /\ ArrayList_getCount(SharedArrayList(1), lists) = Len(op.y.data)

C12_Witness == op.name = "new" /\ op.y.data = <<2, 1>>

\* C13: after any sequence of add, addAll, set, setLast, removeAt, remove,
\* removeFirst and removeLast calls, 0 <= count <= length of the backing
\* store, getCount() is the number of added elements minus the number of
\* successful removals, and get(i) is undefined for every i outside
\* [0, count), a slot vacated by a removal included.
C13_CountAndBounds ==
    \A id \in 1..2 :
        /\ 0 <= lists[id].count
        /\ lists[id].count <= Len(lists[id].data)
        /\ ArrayList_getCount(SharedArrayList(id), lists) = added[id] - removed[id]
        /\ \A i \in {undefined} \cup (-1 .. MaxAdds + 1) :
              ~(isDefined(i) /\ 0 <= i /\ i < added[id] - removed[id])
                  => ArrayList_get(SharedArrayList(id), i, lists) = undefined

C13_Witness ==
    /\ removed[1] = 1 /\ added[1] = 2
    /\ Len(lists[1].data) = 2
    /\ op.name = "get" /\ op.n = 1 /\ ret = undefined

\* C14: removeAt, get and set with an index that is undefined, negative or
\* >= count, and removeFirst and removeLast on an empty list, change nothing
\* of the list, and removeAt, get, removeFirst and removeLast return undefined.
C14_OutOfRangeIsNoOp ==
    [][(/\ op'.level = "list"
        /\ \/ op'.name \in {"removeAt", "get", "set"} /\ ~InBounds(lists[op'.id], op'.n)
           \/ op'.name \in {"removeFirst", "removeLast"} /\ lists[op'.id].count = 0)
       => /\ lists' = lists
          /\ ret' = undefined]_vars

C14_Witness ==
    /\ op.name = "set" /\ op.n = lists[1].count /\ lists[1].count = 1
    /\ Len(lists[1].data) = 1

\* C15: removeAt(i) with 0 <= i < count returns the element at i; afterwards
\* the elements before i are unchanged, those after i have moved left by one
\* in their order, and getCount() is one less.
C15_RemoveAtShifts ==
    [][(op'.level = "list" /\ op'.name = "removeAt" /\ InBounds(lists[1], op'.n))
       => /\ ret' = Contents(lists[1])[op'.n + 1]
          /\ Contents(lists'[1]) =
                 SubSeq(Contents(lists[1]), 1, op'.n)
                     \o SubSeq(Contents(lists[1]), op'.n + 2, lists[1].count)
          /\ ArrayList_getCount(SharedArrayList(1), lists')
                 = ArrayList_getCount(SharedArrayList(1), lists) - 1]_vars

C15_Witness ==
    /\ op.name = "removeAt" /\ op.n = 0 /\ ret = 1
    /\ Contents(lists[1]) = <<2, 1>>

\* ------------------------------------------------------- the claims on reads
\* C16: on every Iterable, get(index) and getLast(index) return undefined
\* when index is undefined, negative, or >= getCount().
C16_OutOfBoundsIsUndefined ==
    (/\ op.name \in {"get", "getLast"}
     /\ ~(isDefined(op.n) /\ 0 <= op.n /\ op.n < Iterable_getCount(src, lists)))
        => ret = undefined

\* C18: first(p) is the first element of toArray() that satisfies p and
\* last(p) the last one, undefined when there is none; without a predicate
\* they are the first and the last element, undefined on an empty Iterable.
Satisfying(seq, cond) == IF cond = "none" THEN seq ELSE Filter(seq, cond)

C18_FirstAndLast ==
    /\ op.name = "first" =>
          ret = IF Satisfying(arr, op.cond) = <<>> THEN undefined
                ELSE Head(Satisfying(arr, op.cond))
    /\ op.name = "last" =>
          ret = IF Satisfying(arr, op.cond) = <<>> THEN undefined
                ELSE Satisfying(arr, op.cond)[Len(Satisfying(arr, op.cond))]

C18_Witness ==
    /\ op.name = "last" /\ op.cond = "even"
    /\ Len(arr) = 3 /\ ret = arr[2] /\ arr[1] = ret /\ ~condition("even", arr[3])

\* C17: for n >= 0, x.skipLast(n).toArray() is x.toArray() without its last
\* min(n, count) elements, x.takeLast(n).toArray() is the last min(n, count)
\* elements of x.toArray() in order, and the first followed by the second is
\* x.toArray().
C17_SkipLastTakeLast ==
    (op.level = "iterable" /\ op.name \in {"skipLast", "takeLast"} /\ isDefined(op.n) /\ op.n >= 0)
        => /\ IterableCall("skipLast") => arr = TakeFirst(SrcArr, Len(SrcArr) - Min(op.n, Len(SrcArr)))
           /\ IterableCall("takeLast") => arr = TakeEnd(SrcArr, op.n)
           /\ IterableBase_toArray(IterableBase_skipLast(src, op.n, lists), lists)
                  \o IterableBase_toArray(IterableBase_takeLast(src, op.n, lists), lists)
              = SrcArr

C17_Witness ==
    /\ IterableCall("skipLast") /\ op.n = 1 /\ src.k = "whereI"
    /\ Len(SrcArr) = 2 /\ arr = <<SrcArr[1]>>
    /\ IterableBase_toArray(IterableBase_takeLast(src, op.n, lists), lists) = <<SrcArr[2]>>

\* C34: on every Iterable, those that override the generic methods
\* included, getCount() is the length of toArray(), and for 0 <= i <
\* getCount(), get(i) is toArray()[i] and getLast(i) is
\* toArray()[getCount() - 1 - i].
InCount(i) == isDefined(i) /\ 0 <= i /\ i < Iterable_getCount(src, lists)

C34_RandomAccessAgrees ==
    /\ Iterable_getCount(src, lists) = Len(arr)
    /\ (op.name = "get" /\ InCount(op.n)) => ret = arr[op.n + 1]
    /\ (op.name = "getLast" /\ InCount(op.n)) =>
          ret = arr[Iterable_getCount(src, lists) - op.n]

C34_Witness ==
    /\ src.k = "mapI" /\ src.fn = "inc" /\ src.inner.k = "list"
    /\ op.name = "getLast" /\ op.n = 1 /\ arr = <<2, 3>> /\ ret = 2

\* ------------------------------------------------------- the claims on StringIterator
\* no next() has been called on the iterator yet
NoNextYet == seen[1] = <<>> /\ ~ended[1]

\* text[s], ..., text[e-1] for s <= e and text[s], text[s-1], ..., text[e+1] for e < s
StringRange(text, s, e) ==
    IF s <= e THEN SubSeq(text, s + 1, e)
    ELSE [i \in 1..(s - e) |-> text[s - i + 2]]

IsPrefix(p, s) == Len(p) <= Len(s) /\ p = SubSeq(s, 1, Len(p))

Max(a, b) == IF a < b THEN b ELSE a

\* C19: a StringIterator(text, s, e) follows the cursor protocol: before any
\* next() hasCurrent() is false; the first next() marks it started and leaves
\* the position; each later next() moves the position by one step while an
\* element is current; next() returns true exactly when an element is current
\* afterwards; and the values getCurrent() shows are text[s], ..., text[e-1]
\* for s <= e and text[s], text[s-1], ..., text[e+1] for e < s.
C19_Protocol ==
    /\ [](/\ (NoNextYet /\ op.name = "hasCurrent") => ret = FALSE
          /\ IsPrefix(seen[1], StringRange(src.text, itA.startIndex, itA.endIndex))
          /\ ended[1] => seen[1] = StringRange(src.text, itA.startIndex, itA.endIndex))
    /\ [][op'.name = "next" =>
            /\ NoNextYet => itA'.started /\ itA'.currentIndex = itA.currentIndex
            /\ (~NoNextYet /\ StringIterator_hasCurrent(itA))
                   => itA'.currentIndex = itA.currentIndex + itA.step
            /\ ret' <=> StringIterator_hasCurrent(itA')]_vars

C19_Witness ==
    /\ ended[1] /\ itA.step = -1 /\ itA.startIndex = 1 /\ itA.endIndex = -1
    /\ src.text = <<1, 2>> /\ seen[1] = <<2, 1>>
    /\ op.name = "getCurrent" /\ ret = undefined

\* C20: after any number of next() calls on a StringIterator, the step is the
\* one chosen at construction, the position has only changed by that step,
\* and the position is between the start bound and the end bound inclusive.
C20_StepAndBounds ==
    /\ [](/\ itA.step = IF itA.endIndex >= itA.startIndex THEN 1 ELSE -1
          /\ Min(itA.startIndex, itA.endIndex) <= itA.currentIndex
          /\ itA.currentIndex <= Max(itA.startIndex, itA.endIndex))
    /\ [][/\ itA'.step = itA.step
          /\ itA'.startIndex = itA.startIndex
          /\ itA'.endIndex = itA.endIndex
          /\ itA'.currentIndex \in {itA.currentIndex, itA.currentIndex + itA.step}]_vars

C20_Witness ==
    /\ ended[1] /\ itA.step = 1 /\ itA.startIndex = 1 /\ itA.endIndex = 2
    /\ itA.currentIndex = itA.endIndex /\ op.name = "next" /\ ret = FALSE

\* ------------------------------------------------------- the claims on the Lexer
\* the tokens next() has yielded, the text and the offset the Lexer was made with
Tokens == seen[1]

LexText == src.text

RECURSIVE TokenTexts(_)
TokenTexts(tokens) ==
    IF tokens = <<>> THEN <<>> ELSE Head(tokens).text \o TokenTexts(Tail(tokens))

\* the character of the text at an absolute index
CharAt(index) == LexText[index - itA.offset + 1]

AfterText == itA.offset + Len(LexText)

\* C21: the tokens of new Lexer(t, k) partition the input: the first token
\* has startIndex k, each later token starts at the previous token's
\* afterEndIndex, the last token's afterEndIndex is k + t.length and the token
\* texts in order concatenate to t; "ab12 }" with k = 0 gives Letters "ab"@0,
\* Digits "12"@2, Space@4, RightCurlyBracket@5.
C21_TokensPartition ==
    /\ Tokens # <<>> => Tokens[1].startIndex = itA.offset
    /\ \A i \in 2..Len(Tokens) : Tokens[i].startIndex = Lex_afterEndIndex(Tokens[i - 1])
    /\ IsPrefix(TokenTexts(Tokens), LexText)
    /\ ended[1] =>
          /\ TokenTexts(Tokens) = LexText
          /\ Tokens # <<>> => Lex_afterEndIndex(Tokens[Len(Tokens)]) = AfterText
    /\ (ended[1] /\ LexText = LexScenario /\ itA.offset = 0) =>
          Tokens = <<Lex(<<97, 98>>, 0, "Letters"), Lex(<<49, 50>>, 2, "Digits"),
                     Lex(<<32>>, 4, "Space"), Lex(<<125>>, 5, "RightCurlyBracket")>>

C21_Witness ==
    /\ ended[1] /\ LexText = LexScenario /\ itA.offset = 0 /\ Len(Tokens) = 4
    /\ op.name = "next" /\ ret = NoLex

\* the token starts with a carriage return that a line feed follows
BeforeLineFeed(lex) ==
    /\ lex.startIndex + 1 < AfterText
    /\ CharAt(lex.startIndex + 1) = 10

\* C22: a carriage return with a line feed right after it yields one token
\* with the text "\r\n" and both characters are consumed; a carriage return
\* before any other character c, or at the end of the input, yields a
\* one-character CarriageReturn token and c is not consumed: c is the first
\* character of the next token.
C22_CarriageReturn ==
    \A i \in 1..Len(Tokens) :
        CharAt(Tokens[i].startIndex) = 13 =>
            /\ Tokens[i].text = IF BeforeLineFeed(Tokens[i]) THEN <<13, 10>> ELSE <<13>>
            /\ ~BeforeLineFeed(Tokens[i]) => Lex_getType(Tokens[i]) = "CarriageReturn"
            \* the Lexer's StringIterator is on the first character after the token
            /\ (i = Len(Tokens) /\ ~ended[1]) =>
                  itA.iterator.currentIndex + itA.offset
                      = Tokens[i].startIndex + (IF BeforeLineFeed(Tokens[i]) THEN 2 ELSE 1)
            /\ i < Len(Tokens) =>
                  /\ Tokens[i + 1].startIndex
                         = Tokens[i].startIndex + (IF BeforeLineFeed(Tokens[i]) THEN 2 ELSE 1)
                  /\ Tokens[i + 1].text[1] = CharAt(Tokens[i + 1].startIndex)
            /\ (ended[1] /\ i = Len(Tokens)) =>
                  Tokens[i].startIndex + (IF BeforeLineFeed(Tokens[i]) THEN 2 ELSE 1) = AfterText

C22_Witness ==
    /\ LexText = <<13, 97, 13>> /\ ended[1] /\ Len(Tokens) = 3
    /\ Tokens[1] = Lex(<<13>>, itA.offset, "CarriageReturn")
    /\ Tokens[2].text = <<97>>

\* C23: for every token of the Lexer, isNewLine() is true exactly when its
\* text is "\n" or "\r\n", isWhitespace() exactly when its text is a space, a
\* tab or a lone "\r", and no token is both; the input "\r\n" yields exactly
\* one token, of length 2, with isNewLine() true and isWhitespace() false.
C23_Classification ==
    /\ \A i \in 1..Len(Tokens) :
          /\ Lex_isNewLine(Tokens[i]) <=> Tokens[i].text \in {<<10>>, <<13, 10>>}
          /\ Lex_isWhitespace(Tokens[i]) <=> Tokens[i].text \in {<<32>>, <<9>>, <<13>>}
          /\ ~(Lex_isNewLine(Tokens[i]) /\ Lex_isWhitespace(Tokens[i]))
    /\ (LexText = <<13, 10>> /\ ended[1]) =>
          /\ Len(Tokens) = 1
          /\ Lex_getLength(Tokens[1]) = 2
          /\ Lex_isNewLine(Tokens[1])
          /\ ~Lex_isWhitespace(Tokens[1])

C23_Witness ==
    /\ LexText = <<13, 10>> /\ ended[1] /\ Len(Tokens) = 1
    /\ Lex_isNewLine(Tokens[1]) /\ ~Lex_isWhitespace(Tokens[1])

\* C25: a token's type determines its text: two tokens of the Lexer with
\* the same getType() other than Letters, Digits and Unrecognized have the
\* same text.
C25_TypeDeterminesText ==
    \A i, j \in 1..Len(Tokens) :
        (/\ Lex_getType(Tokens[i]) = Lex_getType(Tokens[j])
         /\ Lex_getType(Tokens[i]) \notin {"Letters", "Digits", "Unrecognized"})
            => Tokens[i].text = Tokens[j].text

\* the characters the Lexer's StringIterator has passed
Consumed(lexer) == lexer.iterator.currentIndex

\* C24: the Lexer makes progress and terminates: each next() that returns
\* true consumes at least one character, so next() returns true at most
\* t.length times; it returns false once the text is consumed, which a caller
\* that goes on calling next() reaches; for the empty text the first next()
\* returns false and getCurrent() is undefined.
C24_Terminates ==
    /\ [](/\ Len(Tokens) <= Len(LexText)
          /\ (LexText = <<>> /\ op.name = "next") => ret = NoLex)
    /\ [][op'.name = "next" =>
            /\ Len(Tokens') = Len(Tokens) + 1 =>
                  /\ Consumed(itA') >= Consumed(itA) + 1
                  /\ Consumed(itA') = Consumed(itA) + Lex_getLength(ret')
            /\ Tokens' = Tokens <=> Consumed(itA) = Len(LexText)
            /\ LexText = <<>> => Tokens' = <<>> /\ ended'[1]]_vars
    /\ <>ended[1]

C24_Witness ==
    /\ LexText = <<>> /\ ended[1] /\ Tokens = <<>>
    /\ op.name = "next" /\ ret = NoLex

\* the token's text is a maximal run of characters that `accepts` accepts
MaximalRun(lex, accepts(_)) ==
    /\ lex.text # <<>>
    /\ \A n \in 1..Len(lex.text) : accepts(lex.text[n])
    /\ lex.startIndex > itA.offset => ~accepts(CharAt(lex.startIndex - 1))
    /\ Lex_afterEndIndex(lex) < AfterText => ~accepts(CharAt(Lex_afterEndIndex(lex)))

\* C26: letter and digit runs are lexed greedily: every Letters token's text
\* is a maximal run of characters isLetter accepts, every Digits token's text
\* a maximal run of ASCII digits, and no two consecutive tokens are both
\* Letters or both Digits.
C26_GreedyRuns ==
    \A i \in 1..Len(Tokens) :
        /\ Lex_getType(Tokens[i]) = "Letters" =>
              /\ MaximalRun(Tokens[i], isLetter)
              /\ i > 1 => Lex_getType(Tokens[i - 1]) # "Letters"
        /\ Lex_getType(Tokens[i]) = "Digits" =>
              /\ MaximalRun(Tokens[i], isDigit)
              /\ i > 1 => Lex_getType(Tokens[i - 1]) # "Digits"

C26_Witness ==
    /\ LexText = <<97, 97, 49>> /\ ended[1]
    /\ Tokens = <<Lex(<<97, 97>>, 2, "Letters"), Lex(<<49>>, 4, "Digits")>>

AsciiLetters == (65..90) \cup (97..122)

\* C35: isLetter accepts every ASCII letter A-Z and a-z, so a text made only
\* of ASCII letters lexes to one Letters token whose text is the whole text.
C35_AsciiLettersAreLetters ==
    (LexText # <<>> /\ \A i \in 1..Len(LexText) : LexText[i] \in AsciiLetters) =>
        /\ \A i \in 1..Len(LexText) : isLetter(LexText[i])
        /\ ended[1] => Tokens = <<Lex(LexText, itA.offset, "Letters")>>

\* ------------------------------------------------------- the claims on counting and visiting
\* the values an iterator can still iterate: its current value, if it has
\* one, and the values next() leads to until it returns false
RECURSIVE RemainingAfter(_, _)
RemainingAfter(it, out) ==
    Bind(next(it, lists), LAMBDA n :
        IF n.r THEN RemainingAfter(n.it, Append(out, getCurrent(n.it, lists).r))
        ELSE out)

Remaining(it) ==
    RemainingAfter(it, IF hasCurrent(it, lists).r THEN <<getCurrent(it, lists).r>> ELSE <<>>)

\* C27: on every iterator variant in every state, getCount() returns the
\* number of values the iterator can still iterate (the current value, if
\* any, and all values after it), and afterwards hasCurrent() is false.
C27_GetCount ==
    [][op'.name = "getCount" =>
          /\ ret' = Len(Remaining(itA))
          /\ ~hasCurrent(itA', lists).r]_vars

C27_Witness ==
    /\ op.name = "getCount" /\ ret = 1
    /\ itA.k = "map" /\ itA.fn = "inc" /\ itA.inner.k = "fwd" /\ lists[1].count = 2
    /\ ~hasCurrent(itA, lists).r

\* C28: on every iterator variant and for every visitor, those that call
\* control.break() and the undefined one included, foreach() hands the
\* iterator's remaining values to the visitor and leaves the iterator
\* without a current value.
C28_Foreach ==
    [][op'.name = "foreach" =>
          /\ arr' = Remaining(itA)
          /\ ~hasCurrent(itA', lists).r]_vars

\* the values from index `from` on
From(seq, from) == SubSeq(seq, from, Len(seq))

\* the index of the first value that satisfies cond (there is one)
FirstMatch(seq, cond) ==
    CHOOSE i \in 1..Len(seq) :
        /\ condition(cond, seq[i])
        /\ \A j \in 1..(i - 1) : ~condition(cond, seq[j])

RECURSIVE Observations(_)
Observations(it) ==
    <<hasCurrent(it, lists).r, getCurrent(it, lists).r>>
        \o Bind(next(it, lists), LAMBDA n :
               IF n.r THEN <<TRUE>> \o Observations(n.it)
               ELSE <<FALSE, hasCurrent(n.it, lists).r, getCurrent(n.it, lists).r>>)

Observable(it) == <<Observations(it), toArray(it, lists)>>

\* C38: hasStarted(), hasCurrent() and getCurrent() are observationally
\* pure on every iterator variant, also where hasCurrent() and getCurrent()
\* do the deferred skipping of a skip iterator: an extra call in any state
\* changes the result of no later hasCurrent(), getCurrent(), next() or
\* toArray() call.
\* (a query that leaves every field of the iterator as it was changes nothing;
\* one that does not, the deferred skipping, is compared by what is observed)
SameToTheCaller(asked, it) == asked = it \/ Observable(asked) = Observable(it)

C38_QueriesArePure ==
    /\ SameToTheCaller(hasCurrent(itA, lists).it, itA)
    /\ SameToTheCaller(getCurrent(itA, lists).it, itA)

C38_Witness ==
    /\ itA.k = "skip" /\ itA.toSkip = 1 /\ itA.skipped = 0
    /\ hasCurrent(itA.inner, lists).r
    /\ hasCurrent(itA, lists).it.skipped = 1
    /\ Contents(lists[1]) = <<1, 2>> /\ toArray(itA, lists) = <<2>>

\* C39: however add, removeAt, removeFirst and removeLast on an ArrayList
\* are interleaved with next() on a forward iterator of that list, the
\* iterator stays inside the list: whenever hasCurrent() is true its index
\* is at least 0 and less than getCount(), so that getCurrent() returns an
\* element of the list, and a next() past the end of the list is refused.
C39_IteratorInsideList ==
    /\ ArrayListIterator_hasCurrent(itA, lists)
           => /\ 0 <= itA.idx
              /\ itA.idx < ArrayList_getCount(itA, lists)
              /\ ArrayListIterator_getCurrent(itA, lists) \in Values
    /\ op.name = "next" /\ itA.idx > ArrayList_getCount(itA, lists) => ~ret

\* ------------------------------------------------------- the claims on LanguageExtension
Tracked == extension._parsedDocuments # {}

\* how many undisposed language subscriptions the extension holds for a callback
Subscriptions(name) ==
    Cardinality({i \in DOMAIN extension._languageSubscriptions :
                     extension._languageSubscriptions[i] = name})

\* C40, as stated: before dispose(), after any events, each of the language
\* subscriptions (document changed, document closed, hover, completions,
\* formatting) is registered, once, exactly while a parsed document is
\* tracked.
C40_AllSubscribedWhileTracked ==
    ~extension._disposed =>
        \A name \in {"textDocumentChanged", "textDocumentClosed", "provideHover",
                     "provideCompletions", "provideFormattedDocumentText"} :
            Subscriptions(name) = IF Tracked THEN 1 ELSE 0

\* C40: before dispose(), after any events, the document changed and
\* document closed subscriptions are registered, once, exactly while a parsed
\* document is tracked, and the hover, completions and formatting
\* subscriptions exactly while a parsed document is tracked and their provider
\* function was set; none is ever held twice.
C40_SubscribedWhileTracked ==
    ~extension._disposed =>
        /\ Subscriptions("textDocumentChanged") = IF Tracked THEN 1 ELSE 0
        /\ Subscriptions("textDocumentClosed") = IF Tracked THEN 1 ELSE 0
        /\ Subscriptions("provideHover")
               = IF Tracked /\ extension._onProvideHoverFunction THEN 1 ELSE 0
        /\ Subscriptions("provideCompletions")
               = IF Tracked /\ extension._onProvideCompletionsFunction THEN 1 ELSE 0
        /\ Subscriptions("provideFormattedDocumentText")
               = IF Tracked /\ extension._onProvideFormattedDocumentFunction THEN 1 ELSE 0
        /\ Len(extension._languageSubscriptions) <= 5

\* the last tracked document was closed, and the handler disposed the
\* subscriptions of an extension with a hover function only
C40_Witness ==
    /\ ~extension._disposed
    /\ op.name = "textDocumentClosed" /\ ret = 3
    /\ ~Tracked /\ extension._languageSubscriptions = <<>>
    /\ extension._onProvideHoverFunction
    /\ ~extension._onProvideCompletionsFunction

\* ------------------------------------------------------- the claims on Map
StoredPairs == Contents(lists[1])

AddedKeys == {Pair_key(arr[i]) : i \in 1..Len(arr)}

\* the value of the most recent add of key k
LastAdded(k) ==
    IF k \in AddedKeys
    THEN Pair_value(arr[CHOOSE i \in 1..Len(arr) :
                            /\ Pair_key(arr[i]) = k
                            /\ \A j \in (i + 1)..Len(arr) : Pair_key(arr[j]) # k])
    ELSE undefined

\* C29: after any sequence of add and addAll calls no two stored entries
\* have the same key, getCount() is the number of distinct keys added,
\* contains(k) is true exactly for the added keys, and get(k) is the value
\* of the most recent add of k, undefined for a key never added.
C29_MapKeysUnique ==
    /\ \A i, j \in 1..Len(StoredPairs) :
          i # j => Pair_key(StoredPairs[i]) # Pair_key(StoredPairs[j])
    /\ Map_getCount(lists) = Cardinality(AddedKeys)
    /\ \A k \in MapKeys :
          /\ Map_contains(lists, k) <=> k \in AddedKeys
          /\ Map_get(lists, k) = LastAdded(k)

C29_Witness ==
    /\ arr = <<KeyValuePair(1, 1), KeyValuePair(2, 1), KeyValuePair(1, 2)>>
    /\ op.name = "add"
    /\ StoredPairs = <<KeyValuePair(2, 1), KeyValuePair(1, 2)>>
    /\ Map_getCount(lists) = 2 /\ Map_get(lists, 1) = 2 /\ ~Map_contains(lists, 3)

\* ------------------------------------------------------- the claims on Stack
\* the most recently pushed value that was not popped yet
Top == IF arr = <<>> THEN undefined ELSE arr[Len(arr)]

\* C30: over every sequence of push, pop and peek calls pop() removes and
\* returns the most recently pushed value not yet popped, peek() returns
\* that value and leaves getCount() as it was, and on an empty stack both
\* return undefined and leave getCount() at 0.
C30_StackIsLifo ==
    /\ [](Stack_getCount(lists) = Len(arr))
    /\ [][/\ op'.name = "pop" =>
                /\ ret' = Top
                /\ Stack_getCount(lists') =
                      IF arr = <<>> THEN 0 ELSE Stack_getCount(lists) - 1
          /\ op'.name = "peek" =>
                /\ ret' = Top
                /\ Stack_getCount(lists') = Stack_getCount(lists)
                /\ Contents(lists'[1]) = Contents(lists[1])]_vars

C30_Witness ==
    /\ op.name = "pop" /\ ret = 2 /\ arr = <<1>>
    /\ Stack_getCount(lists) = 1 /\ Stack_peek(lists) = 1

\* ------------------------------------------------------- the claims on Queue
\* C31: over every sequence of enqueue and dequeue calls dequeue() removes
\* and returns the oldest value enqueued and not yet dequeued, so the values
\* leave in the order they were enqueued, and on an empty queue it returns
\* undefined and leaves getCount() at 0.
C31_QueueIsFifo ==
    /\ [](/\ Queue_getCount(lists) = Len(arr)
          /\ IsPrefix(seen[1], seen[2]))
    /\ [][op'.name = "dequeue" =>
             /\ ret' = (IF arr = <<>> THEN undefined ELSE arr[1])
             /\ Queue_getCount(lists') =
                   IF arr = <<>> THEN 0 ELSE Queue_getCount(lists) - 1]_vars

C31_Witness ==
    /\ op.name = "dequeue" /\ ret = 2
    /\ seen[2] = <<1, 2, 3>> /\ seen[1] = <<1, 2>> /\ arr = <<3>>
    /\ Queue_getCount(lists) = 1

\* ------------------------------------------------------- the claims on chains
\* every WhereIterator with a condition inside `it`, `it` included, is on a
\* value that satisfies its condition whenever it is on a value
RECURSIVE WhereShowsMatches(_)
WhereShowsMatches(it) ==
    CASE it.k = "where" ->
            /\ (it.cond # "none" /\ hasCurrent(it, lists).r) =>
                   condition(it.cond, getCurrent(it, lists).r)
            /\ WhereShowsMatches(it.inner)
      [] it.k \in {"skip", "take", "map"} -> WhereShowsMatches(it.inner)
      [] it.k = "concat" -> WhereShowsMatches(it.first) /\ WhereShowsMatches(it.second)
      [] OTHER -> TRUE

\* C32: in every reachable state of an iterator made by where(p) with a
\* defined p, also right after its construction over an inner iterator
\* that had started, hasCurrent() implies p(getCurrent()).
C32_WhereShowsMatches == WhereShowsMatches(itA)

C32_Witness ==
    /\ itA.k = "where" /\ itA.cond = "even" /\ itA.inner.k = "fwd"
    /\ Contents(lists[1]) = <<1, 2>>
    /\ hasCurrent(itA, lists).r /\ getCurrent(itA, lists).r = 2
    /\ ~ended[1]

\* C33: for two iterators a and b, each not started, on a value or
\* exhausted, a.concatenate(b).toArray() is the remaining values of a (its
\* current value first) followed by the remaining values of b.
C33_ConcatenateKeepsOrder ==
    [][op'.name = "toArray" => arr' = Remaining(itA) \o Remaining(itB)]_vars

\* ------------------------------------------------------- the claims on finding and removing
\* element e matches the value a call looks for
Matches(call, e) ==
    IF call.cond = "none" THEN e = call.value ELSE comparer(call.cond, e, call.value)

\* the positions (from 1) of the matching elements
MatchingAt(call, seq) == {i \in 1..Len(seq) : Matches(call, seq[i])}

FirstAt(call, seq) == CHOOSE i \in MatchingAt(call, seq) : \A j \in MatchingAt(call, seq) : i <= j

\* C37: indexOf(value, comparer?) is the smallest index of a matching
\* element (=== without a comparer), undefined when there is none; remove
\* removes that element and returns it, leaves every other element in
\* order, and changes nothing and returns undefined when none matches.
C37_FirstMatch ==
    [][/\ op'.name = "indexOf" =>
             /\ lists' = lists
             /\ ret' = IF MatchingAt(op', Contents(lists[1])) = {} THEN undefined
                       ELSE FirstAt(op', Contents(lists[1])) - 1
       /\ op'.name = "remove" =>
             IF MatchingAt(op', Contents(lists[1])) = {}
             THEN lists' = lists /\ ret' = undefined
             ELSE /\ ret' = Contents(lists[1])[FirstAt(op', Contents(lists[1]))]
                  /\ Contents(lists'[1]) =
                        SubSeq(Contents(lists[1]), 1, FirstAt(op', Contents(lists[1])) - 1)
                            \o From(Contents(lists[1]), FirstAt(op', Contents(lists[1])) + 1)]_vars

C37_Witness ==
    /\ op.name = "remove" /\ op.cond = "key" /\ op.value = 3 /\ ret = 2
    /\ Contents(lists[1]) = <<1, 2>> /\ Len(lists[1].data) = 3

=============================================================================
